---- MODULE Spec2Model ----
(***************************************************************************)
(* A model of the libzdb connection pool (src/db/ConnectionPool.c) and of  *)
(* the zdb::ConnectionPool / zdb::Connection wrappers (src/zdbpp.h).       *)
(*                                                                         *)
(* Every critical section of the pool mutex is one atomic action; the code *)
(* that runs between two critical sections is a step of its own, so that   *)
(* other threads interleave exactly where the mutex is not held.           *)
(* The driver (open, ping, rollback) and the clock are the environment:    *)
(* their outcomes are inputs drawn with \E.                                *)
(***************************************************************************)
EXTENDS Integers, Sequences, FiniteSets, TLC

\* ---------------------------------------------------------------- bounds
MaxConns == 2          \* connection objects the driver opens in one run
MaxCfg == 1            \* largest argument given to the initial/max setters
MaxReapers == 2        \* reaper threads created in one run
MaxParams == 3         \* placeholders of a prepared statement
MaxVal == 2            \* distinct values bound to a placeholder
MaxPools == 2          \* ConnectionPool objects of the process
MaxHandlers == 2       \* distinct abort handlers the program installs
MaxFrames == 1         \* TRY blocks a thread nests
MaxElems == 3          \* connections of the pool vector taken alone

Threads == {"t1", "t2"}

\* ------------------------------------------------------ program constants
SQL_DEFAULT_INIT_CONNECTIONS == 5
SQL_DEFAULT_MAX_CONNECTIONS == 20
maxRetries == 10

NULL == 0
ConnIds == 1..MaxConns
ReaperIds == 1..MaxReapers

VARIABLES
    pool,               \* P->pool: the Vector of connections, index 0 first
    available,          \* Connection isAvailable, per connection object
    inTransaction,      \* Connection isInTransaction
    hasStmt,            \* the connection has a live ResultSet/PreparedStatement
    nextId,             \* the next connection object Connection_new creates
    freed,              \* connection objects passed to Connection_free
    filled,             \* P->filled
    doSweep,            \* P->doSweep
    stopped,            \* P->stopped
    maxConnections,     \* P->maxConnections
    initialConnections, \* P->initialConnections
    reaper,             \* P->reaper: the thread handle last created
    reaperPc,           \* position of each reaper thread in _doSweep
    pc,                 \* position of each caller thread
    con,                \* the local `con` of the call a thread is in
    size,               \* the local `size` of _getConnection
    retries,            \* the local `retries` of _getConnection
    held,               \* the connections a caller got and has not returned
    last,               \* the call that completed in the step leading here
                        \* (NoCall if none did): thread, outcome, int
                        \* returned, and whether the returned connection
                        \* passed Connection_ping during the call
    handle,             \* zdb::Connection object in the scope of each thread:
                        \* obj: it is alive; t_: its Connection_T; was: the
                        \* connection it was constructed with; closed:
                        \* close() has been called on it; exit: how the
                        \* scope of the previous object ended
    paramCount,         \* PreparedStatement_getParameterCount of the
                        \* prepared statement (no statement: 0)
    params,             \* the value bound to each placeholder of the
                        \* statement, Unbound if none
    mutex,              \* P->mutex: the thread that holds it, or "none"
    acc,                \* the function of ConnectionPool.c whose accesses to
                        \* the fields of P each thread is in the middle of,
                        \* or "none"
    g_abortHandler,     \* zdbpp.h g_abortHandler: the std::function, 0 if
                        \* empty
    AbortHandler,       \* ConnectionPool.c AbortHandler: "NULL" or the
                        \* function installed
    frames,             \* Exception_stack: the TRY frames of each thread
    aborted,            \* the process has called abort(3)
    invoked,            \* the last call of a program's abort handler: the
                        \* handler and the message it was given
    recent,             \* the last setAbortHandler: the pool it was called
                        \* on, and per pool the handler last given to it
    vec,                \* a pool vector of up to MaxElems connections
    avail,              \* isAvailable of each of these connections
    picked,             \* the candidate _findConnection returned last
    Exception_stack,    \* the Exception_stack of one thread: the TRY
                        \* statements whose Exception_Frame is on it, the
                        \* most recent last, each by its nesting depth
    tstmts,             \* the TRY statements the thread is inside of,
                        \* the innermost last: Exception_flag, the
                        \* exception of its frame, the block control is
                        \* in, its CATCH clauses, whether it has a
                        \* FINALLY, how often that block was entered,
                        \* and the Exception_stack before its TRY
    tleft,              \* the TRY statements control left in the step
                        \* leading here, and how
    uncaught,           \* the exception no frame was there to take
    str,                \* the argument of Str_parseInt: NULL, or the
                        \* characters of the string
    parsed,             \* what the call did: not made yet, raised
                        \* SQLException, or the int it returned
    tin,                \* the argument of Time_toDateTime as the
                        \* lexemes its scanner cuts it into, in order
    tout                \* what the call did: not made yet, raised
                        \* SQLException, or the struct tm it returned

vars == <<pool, available, inTransaction, hasStmt, nextId, freed, filled,
          doSweep, stopped, maxConnections, initialConnections, reaper,
          reaperPc, pc, con, size, retries, held, last, handle, paramCount,
          params, mutex, acc, g_abortHandler, AbortHandler, frames, aborted,
          invoked, recent, vec, avail, picked,
          Exception_stack, tstmts, tleft, uncaught,
          str, parsed,
          tin, tout>>

poolVars == <<pool, available, inTransaction, hasStmt, nextId, freed>>
cfgVars == <<maxConnections, initialConnections, doSweep>>
reaperVars == <<reaper, reaperPc>>
localVars == <<con, size, retries>>

\* The state of the C++ wrappers, which the functions of ConnectionPool.c do
\* not touch
scopeVars == <<handle>>
stmtVars == <<paramCount, params>>
raceVars == <<mutex, acc>>
excVars == <<g_abortHandler, AbortHandler, frames, aborted, invoked, recent>>
vecVars == <<vec, avail, picked>>
tryVars == <<Exception_stack, tstmts, tleft, uncaught>>
strVars == <<str, parsed>>
timeVars == <<tin, tout>>
otherVars == <<scopeVars, stmtVars, raceVars, excVars,
               vecVars, tryVars, strVars, timeVars>>

\* What the functions of one wrapper leave alone of the other wrappers
scopeRest == <<stmtVars, raceVars, excVars, vecVars,
             tryVars, strVars, timeVars>>
stmtRest == <<scopeVars, raceVars, excVars, vecVars,
             tryVars, strVars, timeVars>>
raceRest == <<scopeVars, stmtVars, excVars, vecVars,
             tryVars, strVars, timeVars>>
excRest == <<scopeVars, stmtVars, raceVars, vecVars,
             tryVars, strVars, timeVars>>
vecRest == <<scopeVars, stmtVars, raceVars, excVars,
             tryVars, strVars, timeVars>>
tryRest == <<scopeVars, stmtVars, raceVars, excVars,
             vecVars, strVars, timeVars>>
strRest == <<scopeVars, stmtVars, raceVars, excVars,
             vecVars, tryVars, timeVars>>
timeRest == <<scopeVars, stmtVars, raceVars, excVars,
             vecVars, tryVars, strVars>>

\* ----------------------------------------------------------------- Vector
Range(v) == {v[i] : i \in 1..Len(v)}

Vector_size(v) == Len(v)

Vector_isEmpty(v) == Len(v) = 0

\* Vector_get(V, i), i counted from 0
Vector_get(v, i) == v[i + 1]

Vector_push(v, e) == Append(v, e)

\* Vector_remove(V, i): the vector without its element at index i (from 0)
Vector_remove(v, i) == SubSeq(v, 1, i) \o SubSeq(v, i + 2, Len(v))

\* A lookup that answers the head of the vector whatever is asked for
Vector_indexOf_head(v, e) == IF Len(v) > 0 THEN 0 ELSE -1

\* Vector_indexOf(V, e): the first index (from 0) holding e, or -1
Vector_indexOf(v, e) ==
    IF e \in Range(v)
    THEN (CHOOSE i \in 1..Len(v) : v[i] = e /\ \A j \in 1..(i - 1) : v[j] # e) - 1
    ELSE -1

\* ------------------------------------------------------- private methods
\* _active(P): the number of connections in the pool that are not available
_active(v, av) == Cardinality({i \in 1..Len(v) : ~av[v[i]]})

\* A _findConnection that never finds a connection
_findConnection_none(v, av) == NULL

\* A _findConnection that takes the available connection of highest index
_findConnection_last(v, av) ==
    IF \E i \in 1..Len(v) : av[v[i]]
    THEN v[CHOOSE i \in 1..Len(v) :
               av[v[i]] /\ \A j \in (i + 1)..Len(v) : ~av[v[j]]]
    ELSE NULL

\* _findConnection(P, &size): the first available connection, or NULL
_findConnection(v, av) ==
    IF \E i \in 1..Len(v) : av[v[i]]
    THEN v[CHOOSE i \in 1..Len(v) : av[v[i]] /\ \A j \in 1..(i - 1) : ~av[v[j]]]
    ELSE NULL

\* The loop of _reapConnections from index i with n removed so far.  x is the
\* budget computed on entry; c is closed when it is available and
\* (lastAccessed < timedout || !Connection_ping(c)).
RECURSIVE reapLoop(_, _, _, _, _, _, _)
reapLoop(v, av, i, n, x, expired, pingOk) ==
    IF n < x /\ i < Vector_size(v)
    THEN LET c == Vector_get(v, i) IN
         IF av[c] /\ (c \in expired \/ c \notin pingOk)
         THEN reapLoop(Vector_remove(v, i), av, i, n + 1, x, expired, pingOk)
         ELSE reapLoop(v, av, i + 1, n, x, expired, pingOk)
    ELSE [pool |-> v, n |-> n]

\* _reapConnections that closes nothing
_reapConnections_none(v, av, init, expired, pingOk) == [pool |-> v, n |-> 0]

\* _reapConnections without the ping test: only expired connections close
_reapConnections_expiredOnly(v, av, init, expired, pingOk) ==
    LET x == Vector_size(v) - _active(v, av) - init
    IN reapLoop(v, av, 0, 0, x, expired, Range(v))

\* _reapConnections without the test Connection_isAvailable(con)
_reapConnections_anyConnection(v, av, init, expired, pingOk) ==
    LET x == Vector_size(v) - _active(v, av) - init
    IN reapLoop(v, [c \in ConnIds |-> TRUE], 0, 0, x, expired, pingOk)

\* _reapConnections with the budget x = size - active
_reapConnections_noInitial(v, av, init, expired, pingOk) ==
    LET x == Vector_size(v) - _active(v, av)
    IN reapLoop(v, av, 0, 0, x, expired, pingOk)

\* _reapConnections(P): the pool after the reap and the number n it returns
_reapConnections(v, av, init, expired, pingOk) ==
    LET x == Vector_size(v) - _active(v, av) - init
    IN reapLoop(v, av, 0, 0, x, expired, pingOk)

\* The ids of k connections opened in a row by Connection_new
NewIds(k) == nextId..(nextId + k - 1)

RECURSIVE PushAll(_, _, _)
PushAll(v, first, k) ==
    IF k = 0 THEN v ELSE PushAll(Vector_push(v, first), first + 1, k - 1)

\* _fillPool that reports success whatever the driver answered
_fillPool_success(init, k) == TRUE

\* _fillPool that reports failure as soon as any open fails
_fillPool_all(init, k) == k = init

\* _fillPool(P) when the first k opens succeed: true unless the first fails
_fillPool(init, k) == k = init \/ k > 0

\* Connection_new(P, &error) succeeded: a new connection object, available
\* and outside any transaction
Connection_new(av, c) == [av EXCEPT ![c] = TRUE]

\* Connection_setAvailable(C, isAvailable)
Connection_setAvailable(av, c, b) == [av EXCEPT ![c] = b]

\* Thread_create(P->reaper, _doSweep, P): the id of the thread it creates
NewReaper == Cardinality({r \in ReaperIds : reaperPc[r] # "none"}) + 1

NoCall == [t |-> "none", r |-> "none", n |-> 0, pinged |-> FALSE]

\* The connection objects of the pool vector taken alone
Elems == 1..MaxElems

\* The pools of the process, the abort handlers of the program (0: none,
\* the default argument nullptr) and the messages of the exceptions thrown
Pools == 1..MaxPools
Handlers == 0..MaxHandlers
Messages == 1..MaxVal

\* A placeholder no value is bound to, and the values that can be bound
Unbound == 0
Values == 1..MaxVal

\* The argument packs of bindValues: one value at least, since
\* bindValuesHelper takes a first argument
ArgPacks == UNION {[1..n -> Values] : n \in 1..(MaxParams + 1)}

\* No zdb::Connection object in the scope of a thread
NoHandle ==
    [obj |-> FALSE, t_ |-> NULL, was |-> NULL, closed |-> FALSE,
     exit |-> "none"]

\* The C++ wrappers before any of them is used
InitWrappers ==
    /\ handle = [t \in Threads |-> NoHandle]
    /\ paramCount = 0
    /\ params = [i \in 1..MaxParams |-> Unbound]
    /\ mutex = "none"
    /\ acc = [t \in Threads |-> "none"]
    /\ g_abortHandler = 0
    /\ AbortHandler = "NULL"
    /\ frames = [t \in Threads |-> 0]
    /\ aborted = FALSE
    /\ invoked = [h |-> 0, msg |-> 0]
    /\ recent = [p |-> 0, h |-> [p \in Pools |-> 0]]
    /\ vec = <<>>
    /\ avail = [c \in Elems |-> FALSE]
    /\ picked = NULL
    /\ Exception_stack = <<>>
    /\ tstmts = <<>>
    /\ tleft = {}
    /\ uncaught = "none"

\* No string has been given to a parser
NoStr == [null |-> TRUE, chars |-> <<>>]
NotParsed == [done |-> FALSE, raised |-> FALSE, value |-> 0]
\* struct tm tm = {.tm_isdst = -1}: the other members are zero
ZeroTm == [tm_year |-> 0, tm_mon |-> 0, tm_mday |-> 0, tm_hour |-> 0,
           tm_min |-> 0, tm_sec |-> 0, tm_gmtoff |-> 0]
NoTime == [done |-> FALSE, raised |-> FALSE, tm |-> ZeroTm]
InitStrNone ==
    /\ str = NoStr
    /\ parsed = NotParsed
InitTimeNone ==
    /\ tin = <<>>
    /\ tout = NoTime
InitNoInput == InitStrNone /\ InitTimeNone

\* Everything outside ConnectionPool.c before it is used
InitOther == InitWrappers /\ InitNoInput

\* ------------------------------------------------------------------ Init
\* The pool after ConnectionPool_new: NEW() zeroes the object, the vector is
\* empty and the two sizes have their defaults.
InitPool ==
    /\ pool = <<>>
    /\ available = [c \in ConnIds |-> FALSE]
    /\ inTransaction = [c \in ConnIds |-> FALSE]
    /\ hasStmt = [c \in ConnIds |-> FALSE]
    /\ nextId = 1
    /\ freed = {}
    /\ filled = FALSE
    /\ doSweep = FALSE
    /\ stopped = FALSE
    /\ maxConnections = SQL_DEFAULT_MAX_CONNECTIONS
    /\ initialConnections = SQL_DEFAULT_INIT_CONNECTIONS
    /\ reaper = NULL
    /\ reaperPc = [r \in ReaperIds |-> "none"]
    /\ pc = [t \in Threads |-> "idle"]
    /\ con = [t \in Threads |-> NULL]
    /\ size = [t \in Threads |-> 0]
    /\ retries = [t \in Threads |-> 0]
    /\ held = [t \in Threads |-> {}]
    /\ last = NoCall

Init == InitPool /\ InitOther

\* A call of thread t ends: outcome r, returned int n, and pg tells whether
\* the connection it returns passed Connection_ping during the call
Finish(t, r, n, pg) ==
    /\ pc' = [pc EXCEPT ![t] = "idle"]
    /\ con' = [con EXCEPT ![t] = NULL]
    /\ size' = [size EXCEPT ![t] = 0]
    /\ retries' = [retries EXCEPT ![t] = 0]
    /\ last' = [t |-> t, r |-> r, n |-> n, pinged |-> pg]

\* Thread t moves on to position p of the call it is in: no call completes
Goto(t, p) ==
    /\ pc' = [pc EXCEPT ![t] = p]
    /\ last' = NoCall

\* ------------------------------------------------------------ properties
\* ConnectionPool_setInitialConnections(P, connections), connections >= 0
SetInitialConnections(t, n) ==
    /\ pc[t] = "idle"
    /\ initialConnections' = n
    /\ Finish(t, "set", 0, FALSE)
    /\ UNCHANGED <<poolVars, filled, stopped, maxConnections, doSweep,
                   reaperVars, held>>
    /\ UNCHANGED otherVars

\* ConnectionPool_setMaxConnections(P, maxConnections): the assertion
\* initialConnections <= maxConnections rejects the call
SetMaxConnections(t, n) ==
    /\ pc[t] = "idle"
    /\ IF initialConnections <= n
       THEN maxConnections' = n /\ Finish(t, "set", 0, FALSE)
       ELSE UNCHANGED maxConnections /\ Finish(t, "assert", 0, FALSE)
    /\ UNCHANGED <<poolVars, filled, stopped, initialConnections, doSweep,
                   reaperVars, held>>
    /\ UNCHANGED otherVars

\* ConnectionPool_setReaper(P, sweepInterval): assert(sweepInterval>0) rejects
\* the call, otherwise doSweep is set under the mutex
SetReaper(t, sweepInterval) ==
    /\ pc[t] = "idle"
    /\ IF sweepInterval > 0
       THEN doSweep' = TRUE /\ Finish(t, "set", 0, FALSE)
       ELSE UNCHANGED doSweep /\ Finish(t, "assert", 0, FALSE)
    /\ UNCHANGED <<poolVars, filled, stopped, maxConnections,
                   initialConnections, reaperVars, held>>
    /\ UNCHANGED otherVars

\* ------------------------------------------------------------ start/stop
\* Start without the test if (! P->filled): every start fills the pool
Start_refill(t) ==
    /\ pc[t] = "idle"
    /\ stopped' = FALSE
    /\ \E k \in 0..initialConnections :
          /\ nextId + k - 1 <= MaxConns
          /\ pool' = PushAll(pool, nextId, k)
          /\ available' = [c \in ConnIds |->
                             IF c \in NewIds(k) THEN TRUE ELSE available[c]]
          /\ nextId' = nextId + k
          /\ filled' = _fillPool(initialConnections, k)
          /\ IF filled' /\ doSweep
             THEN /\ NewReaper \in ReaperIds
                  /\ reaper' = NewReaper
                  /\ reaperPc' = [reaperPc EXCEPT ![NewReaper] = "start"]
             ELSE UNCHANGED reaperVars
    /\ Goto(t, "start_check")
    /\ UNCHANGED <<inTransaction, hasStmt, freed, cfgVars, localVars, held>>
    /\ UNCHANGED otherVars

\* ConnectionPool_start(P), the critical section.  k is the number of driver
\* opens of _fillPool that succeed before the first one fails.
Start(t) ==
    /\ pc[t] = "idle"
    /\ stopped' = FALSE
    /\ IF ~filled
       THEN \E k \in 0..initialConnections :
              /\ nextId + k - 1 <= MaxConns
              /\ pool' = PushAll(pool, nextId, k)
              /\ available' = [c \in ConnIds |->
                                 IF c \in NewIds(k) THEN TRUE ELSE available[c]]
              /\ nextId' = nextId + k
              /\ filled' = _fillPool(initialConnections, k)
              /\ IF filled' /\ doSweep
                 THEN /\ NewReaper \in ReaperIds
                      /\ reaper' = NewReaper
                      /\ reaperPc' = [reaperPc EXCEPT ![NewReaper] = "start"]
                 ELSE UNCHANGED reaperVars
       ELSE UNCHANGED <<pool, available, nextId, filled, reaperVars>>
    /\ Goto(t, "start_check")
    /\ UNCHANGED <<inTransaction, hasStmt, freed, cfgVars, localVars, held>>
    /\ UNCHANGED otherVars

\* ConnectionPool_start(P) after END_LOCK: if (! P->filled) THROW(SQLException)
StartCheck(t) ==
    /\ pc[t] = "start_check"
    /\ Finish(t, IF filled THEN "started" ELSE "sqlerror", 0, FALSE)
    /\ UNCHANGED <<poolVars, filled, stopped, cfgVars, reaperVars, held>>
    /\ UNCHANGED otherVars

\* zdb::ConnectionPool::stop(): if (this->active() > 0) throw sql_exception
StopCheck(t) ==
    /\ pc[t] = "idle"
    /\ IF _active(pool, available) > 0
       THEN Finish(t, "refused", 0, FALSE)
       ELSE Goto(t, "stop_drain") /\ UNCHANGED localVars
    /\ UNCHANGED <<poolVars, filled, stopped, cfgVars, reaperVars, held>>
    /\ UNCHANGED otherVars

\* ConnectionPool_stop(P), the critical section with _drainPool
StopDrain(t) ==
    /\ pc[t] = "stop_drain"
    /\ stopped' = TRUE
    /\ IF filled
       THEN /\ freed' = freed \cup Range(pool)
            /\ pool' = <<>>
            /\ filled' = FALSE
            /\ IF doSweep /\ reaper # NULL
               THEN Goto(t, "stop_join") /\ UNCHANGED localVars
               ELSE Finish(t, "stopped", 0, FALSE)
       ELSE /\ UNCHANGED <<pool, freed, filled>>
            /\ Finish(t, "stopped", 0, FALSE)
    /\ UNCHANGED <<available, inTransaction, hasStmt, nextId, cfgVars,
                   reaperVars, held>>
    /\ UNCHANGED otherVars

\* ConnectionPool_stop(P): Sem_signal(P->alarm); Thread_join(P->reaper)
StopJoin(t) ==
    /\ pc[t] = "stop_join"
    /\ reaperPc[reaper] \in {"exited", "joined"}
    /\ reaperPc' = [reaperPc EXCEPT ![reaper] = "joined"]
    /\ Finish(t, "stopped", 0, FALSE)
    /\ UNCHANGED <<poolVars, filled, stopped, cfgVars, reaper, held>>
    /\ UNCHANGED otherVars

\* -------------------------------------------------------- getConnection
\* GetFind with a _findConnection that leaves the candidate available
GetFind_noflip(t) ==
    /\ pc[t] \in {"idle", "get_find"}
    /\ con' = [con EXCEPT ![t] = _findConnection(pool, available)]
    /\ size' = [size EXCEPT ![t] = Vector_size(pool)]
    /\ Goto(t, "get_check")
    /\ UNCHANGED <<poolVars, filled, stopped, cfgVars, reaperVars, retries,
                   held>>
    /\ UNCHANGED otherVars

\* _getConnection: Mutex_lock; con = _findConnection(P, &size); Mutex_unlock.
\* From "idle" this is the first pass of a new call, from "get_find" a retry.
GetFind(t) ==
    /\ pc[t] \in {"idle", "get_find"}
    /\ LET c == _findConnection(pool, available) IN
         /\ con' = [con EXCEPT ![t] = c]
         /\ size' = [size EXCEPT ![t] = Vector_size(pool)]
         /\ available' = IF c # NULL
                         THEN Connection_setAvailable(available, c, FALSE)
                         ELSE available
    /\ Goto(t, "get_check")
    /\ UNCHANGED <<pool, inTransaction, hasStmt, nextId, freed, filled, stopped,
                   cfgVars, reaperVars, retries, held>>
    /\ UNCHANGED otherVars

\* GetCreate with the test size <= P->maxConnections
GetCreate_le(t, opened) ==
    /\ pc[t] = "get_check"
    /\ con[t] = NULL
    /\ IF size[t] <= maxConnections
       THEN IF opened
            THEN /\ nextId <= MaxConns
                 /\ con' = [con EXCEPT ![t] = nextId]
                 /\ available' = Connection_new(available, nextId)
                 /\ nextId' = nextId + 1
                 /\ Goto(t, "get_push")
                 /\ UNCHANGED <<size, retries>>
            ELSE /\ Finish(t, "open_failed", 0, FALSE)
                 /\ UNCHANGED <<available, nextId>>
       ELSE /\ Finish(t, "max_reached", 0, FALSE)
            /\ UNCHANGED <<available, nextId>>
    /\ UNCHANGED <<pool, inTransaction, hasStmt, freed, filled, stopped,
                   cfgVars, reaperVars, held>>
    /\ UNCHANGED otherVars

\* _getConnection, if (!con): size < P->maxConnections is tested and
\* Connection_new is called without the mutex; opened is the driver's answer.
GetCreate(t, opened) ==
    /\ pc[t] = "get_check"
    /\ con[t] = NULL
    /\ IF size[t] < maxConnections
       THEN IF opened
            THEN /\ nextId <= MaxConns
                 /\ con' = [con EXCEPT ![t] = nextId]
                 /\ available' = Connection_new(available, nextId)
                 /\ nextId' = nextId + 1
                 /\ Goto(t, "get_push")
                 /\ UNCHANGED <<size, retries>>
            ELSE /\ Finish(t, "open_failed", 0, FALSE)
                 /\ UNCHANGED <<available, nextId>>
       ELSE /\ Finish(t, "max_reached", 0, FALSE)
            /\ UNCHANGED <<available, nextId>>
    /\ UNCHANGED <<pool, inTransaction, hasStmt, freed, filled, stopped,
                   cfgVars, reaperVars, held>>
    /\ UNCHANGED otherVars

\* _createConnection, LOCK: Connection_setAvailable(con, false);
\* Vector_push(P->pool, con); then _getConnection returns con, which no
\* Connection_ping has tested
GetPush(t) ==
    /\ pc[t] = "get_push"
    /\ available' = Connection_setAvailable(available, con[t], FALSE)
    /\ pool' = Vector_push(pool, con[t])
    /\ held' = [held EXCEPT ![t] = @ \cup {con[t]}]
    /\ Finish(t, "ok", 0, FALSE)
    /\ UNCHANGED <<inTransaction, hasStmt, nextId, freed, filled, stopped,
                   cfgVars, reaperVars>>
    /\ UNCHANGED otherVars

\* A GetPing that gives the call up at the first failed ping
GetPing_giveUp(t, alive) ==
    /\ pc[t] = "get_check"
    /\ con[t] # NULL
    /\ IF alive
       THEN /\ held' = [held EXCEPT ![t] = @ \cup {con[t]}]
            /\ Finish(t, "ok", 0, TRUE)
       ELSE /\ Finish(t, "retries_exhausted", 0, FALSE)
            /\ UNCHANGED held
    /\ UNCHANGED <<poolVars, filled, stopped, cfgVars, reaperVars>>
    /\ UNCHANGED otherVars

\* _getConnection, else branch: Connection_ping(con) without the mutex;
\* alive is the driver's answer
GetPing(t, alive) ==
    /\ pc[t] = "get_check"
    /\ con[t] # NULL
    /\ IF alive
       THEN /\ held' = [held EXCEPT ![t] = @ \cup {con[t]}]
            /\ Finish(t, "ok", 0, TRUE)
       ELSE /\ Goto(t, "get_evict")
            /\ UNCHANGED <<held, localVars>>
    /\ UNCHANGED <<poolVars, filled, stopped, cfgVars, reaperVars>>
    /\ UNCHANGED otherVars

\* A GetEvict that does not count the retry
GetEvict_noCount(t) ==
    /\ pc[t] = "get_evict"
    /\ LET i == Vector_indexOf(pool, con[t]) IN
       IF i >= 0
       THEN /\ pool' = Vector_remove(pool, i)
            /\ freed' = freed \cup {con[t]}
            /\ Goto(t, "get_find")
            /\ con' = [con EXCEPT ![t] = NULL]
            /\ size' = [size EXCEPT ![t] = 0]
            /\ UNCHANGED retries
       ELSE /\ Goto(t, "assert_failed")
            /\ UNCHANGED <<pool, freed, localVars>>
    /\ UNCHANGED <<available, inTransaction, hasStmt, nextId, filled, stopped,
                   cfgVars, reaperVars, held>>
    /\ UNCHANGED otherVars

\* A GetEvict that leaves the connection that failed the ping in the pool
GetEvict_keep(t) ==
    /\ pc[t] = "get_evict"
    /\ IF retries[t] + 1 < maxRetries
       THEN /\ Goto(t, "get_find")
            /\ retries' = [retries EXCEPT ![t] = @ + 1]
            /\ con' = [con EXCEPT ![t] = NULL]
            /\ size' = [size EXCEPT ![t] = 0]
       ELSE Finish(t, "retries_exhausted", 0, FALSE)
    /\ UNCHANGED <<poolVars, filled, stopped, cfgVars, reaperVars, held>>
    /\ UNCHANGED otherVars

\* _getConnection after a failed ping: Mutex_lock; Vector_remove(P->pool,
\* Vector_indexOf(P->pool, con)); Mutex_unlock; Connection_free(&con);
\* retries++.  Vector_remove asserts i >= 0: when the candidate is no longer
\* in the pool the call ends in that checked runtime error.
GetEvict(t) ==
    /\ pc[t] = "get_evict"
    /\ LET i == Vector_indexOf(pool, con[t]) IN
       IF i >= 0
       THEN /\ pool' = Vector_remove(pool, i)
            /\ freed' = freed \cup {con[t]}
            /\ IF retries[t] + 1 < maxRetries
               THEN /\ Goto(t, "get_find")
                    /\ retries' = [retries EXCEPT ![t] = @ + 1]
                    /\ con' = [con EXCEPT ![t] = NULL]
                    /\ size' = [size EXCEPT ![t] = 0]
               ELSE Finish(t, "retries_exhausted", 0, FALSE)
       ELSE /\ Goto(t, "assert_failed")
            /\ UNCHANGED <<pool, freed, localVars>>
    /\ UNCHANGED <<available, inTransaction, hasStmt, nextId, filled, stopped,
                   cfgVars, reaperVars, held>>
    /\ UNCHANGED otherVars

\* ----------------------------------------------------------- error text
\* A text is the sequence of its characters
Upper ==
    <<"A", "B", "C", "D", "E", "F", "G", "H", "I", "J", "K", "L", "M",
      "N", "O", "P", "Q", "R", "S", "T", "U", "V", "W", "X", "Y", "Z">>
Lower ==
    <<"a", "b", "c", "d", "e", "f", "g", "h", "i", "j", "k", "l", "m",
      "n", "o", "p", "q", "r", "s", "t", "u", "v", "w", "x", "y", "z">>

\* tolower of one character
tolower(ch) ==
    IF \E i \in 1..Len(Upper) : Upper[i] = ch
    THEN Lower[CHOOSE i \in 1..Len(Upper) : Upper[i] = ch]
    ELSE ch

\* The text pat occurs in the text msg, letters compared in any casing
Contains(msg, pat) ==
    \E i \in 1..(Len(msg) - Len(pat) + 1) :
        \A j \in 1..Len(pat) : tolower(msg[i + j - 1]) = tolower(pat[j])

\* "Failed to create a connection -- %s", the format of _createConnection
FailedToCreate ==
    <<"F", "a", "i", "l", "e", "d", " ", "t", "o", " ", "c", "r", "e",
      "a", "t", "e", " ", "a", " ", "c", "o", "n", "n", "e", "c", "t",
      "i", "o", "n", " ", "-", "-", " ">>

\* STR_DEF(P->error) ? P->error : "unknown error", when the driver left no
\* text
UnknownError ==
    <<"u", "n", "k", "n", "o", "w", "n", " ", "e", "r", "r", "o", "r">>

\* "max connections reached"
MaxConnectionsReached ==
    <<"m", "a", "x", " ", "c", "o", "n", "n", "e", "c", "t", "i", "o",
      "n", "s", " ", "r", "e", "a", "c", "h", "e", "d">>

\* "Failed to get a connection that passed the ping test after 10 attempts"
PingTestFailed ==
    <<"F", "a", "i", "l", "e", "d", " ", "t", "o", " ", "g", "e", "t",
      " ", "a", " ", "c", "o", "n", "n", "e", "c", "t", "i", "o", "n",
      " ", "t", "h", "a", "t", " ", "p", "a", "s", "s", "e", "d", " ",
      "t", "h", "e", " ", "p", "i", "n", "g", " ", "t", "e", "s", "t",
      " ", "a", "f", "t", "e", "r", " ", "1", "0", " ", "a", "t", "t",
      "e", "m", "p", "t", "s">>

\* An error text that says the connection pool is full
_getConnection_error_poolFull(r) ==
    <<"C", "o", "n", "n", "e", "c", "t", "i", "o", "n", " ", "p", "o",
      "o", "l", " ", "i", "s", " ", "f", "u", "l", "l">>

\* The text _getConnection leaves in error[] for each of its failures, which
\* ConnectionPool_getConnectionOrException throws as the SQLException
\* message
_getConnection_error(r) ==
    CASE r = "max_reached" -> FailedToCreate \o MaxConnectionsReached
      [] r = "open_failed" -> FailedToCreate \o UnknownError
      [] r = "retries_exhausted" -> PingTestFailed
      [] OTHER -> <<>>

\* ------------------------------------------------------ use of a connection
\* A Connection_beginTransaction that begins a transaction within a
\* transaction
BeginTransaction_nested(t, c) ==
    /\ pc[t] = "idle"
    /\ c \in held[t] /\ c \notin freed
    /\ inTransaction' = [inTransaction EXCEPT ![c] = TRUE]
    /\ UNCHANGED <<pool, available, hasStmt, nextId, freed, filled, stopped,
                   cfgVars, reaperVars, pc, localVars, held>>
    /\ last' = NoCall
    /\ UNCHANGED otherVars

\* Connection_beginTransaction on a connection the caller holds: nested
\* transactions are not allowed, a begin in a transaction is an error
BeginTransaction(t, c) ==
    /\ pc[t] = "idle"
    /\ c \in held[t] /\ c \notin freed
    /\ IF inTransaction[c]
       THEN /\ inTransaction' = inTransaction
            /\ last' = [t |-> t, r |-> "tx_error", n |-> 0, pinged |-> FALSE]
       ELSE /\ inTransaction' = [inTransaction EXCEPT ![c] = TRUE]
            /\ last' = NoCall
    /\ UNCHANGED <<pool, available, hasStmt, nextId, freed, filled, stopped,
                   cfgVars, reaperVars, pc, localVars, held>>
    /\ UNCHANGED otherVars

\* Connection_executeQuery / Connection_prepareStatement: a live ResultSet
\* or PreparedStatement on a connection the caller holds
Execute(t, c) ==
    /\ pc[t] = "idle"
    /\ c \in held[t] /\ c \notin freed
    /\ ~hasStmt[c]
    /\ hasStmt' = [hasStmt EXCEPT ![c] = TRUE]
    /\ UNCHANGED <<pool, available, inTransaction, nextId, freed, filled,
                   stopped, cfgVars, reaperVars, pc, localVars, held>>
    /\ last' = NoCall
    /\ UNCHANGED otherVars

\* Connection_rollback(C): Connection_clear first, the transaction flag is
\* cleared, then the driver's rollback, which may fail
Connection_rollback(tx, c) == [tx EXCEPT ![c] = FALSE]

\* Connection_clear(C): no live ResultSet or PreparedStatement afterwards
Connection_clear(st, c) == [st EXCEPT ![c] = FALSE]

\* Connection_commit(C): Connection_clear, the transaction flag is cleared,
\* then the driver's commit; done is the driver's answer
Commit(t, c, done) ==
    /\ pc[t] = "idle"
    /\ c \in held[t] /\ c \notin freed
    /\ hasStmt' = Connection_clear(hasStmt, c)
    /\ inTransaction' = [inTransaction EXCEPT ![c] = FALSE]
    /\ Finish(t, IF done THEN "committed" ELSE "sql_error", 0, FALSE)
    /\ UNCHANGED <<pool, available, nextId, freed, filled, stopped, cfgVars,
                   reaperVars, held>>
    /\ UNCHANGED otherVars

\* Connection_rollback(C) called by the program; done is the driver's answer
Rollback(t, c, done) ==
    /\ pc[t] = "idle"
    /\ c \in held[t] /\ c \notin freed
    /\ hasStmt' = Connection_clear(hasStmt, c)
    /\ inTransaction' = Connection_rollback(inTransaction, c)
    /\ Finish(t, IF done THEN "rolled_back" ELSE "sql_error", 0, FALSE)
    /\ UNCHANGED <<pool, available, nextId, freed, filled, stopped, cfgVars,
                   reaperVars, held>>
    /\ UNCHANGED otherVars

\* ------------------------------------------------------ returnConnection
\* Return without the rollback of a connection that is in a transaction
Return_noRollback(t, c, rolledBack) ==
    /\ pc[t] = "idle"
    /\ c \in held[t] /\ c \notin freed
    /\ inTransaction[c] \/ rolledBack
    /\ held' = [held EXCEPT ![t] = @ \ {c}]
    /\ con' = [con EXCEPT ![t] = c]
    /\ hasStmt' = Connection_clear(hasStmt, c)
    /\ Goto(t, IF rolledBack THEN "ret_flip" ELSE "ret_flip_logged")
    /\ UNCHANGED <<pool, available, inTransaction, nextId, freed, filled,
                   stopped, cfgVars, reaperVars, size, retries>>
    /\ UNCHANGED otherVars

\* ConnectionPool_returnConnection before the mutex: rollback inside
\* TRY/ELSE when in a transaction (rolledBack is the driver's answer, a
\* failure is only logged), then Connection_clear.  Returning a connection the
\* pool has already freed is a use after free and is left out.
Return(t, c, rolledBack) ==
    /\ pc[t] = "idle"
    /\ c \in held[t] /\ c \notin freed
    /\ inTransaction[c] \/ rolledBack
    /\ held' = [held EXCEPT ![t] = @ \ {c}]
    /\ con' = [con EXCEPT ![t] = c]
    /\ inTransaction' = IF inTransaction[c]
                        THEN Connection_rollback(inTransaction, c)
                        ELSE inTransaction
    /\ hasStmt' = Connection_clear(hasStmt, c)
    /\ Goto(t, IF rolledBack THEN "ret_flip" ELSE "ret_flip_logged")
    /\ UNCHANGED <<pool, available, nextId, freed, filled, stopped, cfgVars,
                   reaperVars, size, retries>>
    /\ UNCHANGED otherVars

\* ConnectionPool_returnConnection: Mutex_lock;
\* Connection_setAvailable(connection, true); Mutex_unlock
ReturnFlip(t) ==
    /\ pc[t] \in {"ret_flip", "ret_flip_logged"}
    /\ available' = Connection_setAvailable(available, con[t], TRUE)
    /\ Finish(t, IF pc[t] = "ret_flip" THEN "returned" ELSE "returned_logged",
              con[t], FALSE)
    /\ UNCHANGED <<pool, inTransaction, hasStmt, nextId, freed, filled,
                   stopped, cfgVars, reaperVars, held>>
    /\ UNCHANGED otherVars

\* returnConnection step by step.  A first step that sets the available
\* flag before the rollback and the clear have run
ReturnRollback_flagFirst(t, c, rolledBack) ==
    /\ pc[t] = "idle"
    /\ c \in held[t] /\ c \notin freed
    /\ inTransaction[c] \/ rolledBack
    /\ held' = [held EXCEPT ![t] = @ \ {c}]
    /\ con' = [con EXCEPT ![t] = c]
    /\ available' = Connection_setAvailable(available, c, TRUE)
    /\ Goto(t, IF rolledBack THEN "ret_clear" ELSE "ret_clear_logged")
    /\ UNCHANGED <<pool, inTransaction, hasStmt, nextId, freed, filled,
                   stopped, cfgVars, reaperVars, size, retries>>
    /\ UNCHANGED otherVars

\* ConnectionPool_returnConnection, first step, outside the mutex:
\* if (Connection_inTransaction(connection)) TRY Connection_rollback ELSE
\* DEBUG END_TRY.  rolledBack is the driver's answer; a failure is logged.
ReturnRollback(t, c, rolledBack) ==
    /\ pc[t] = "idle"
    /\ c \in held[t] /\ c \notin freed
    /\ inTransaction[c] \/ rolledBack
    /\ held' = [held EXCEPT ![t] = @ \ {c}]
    /\ con' = [con EXCEPT ![t] = c]
    /\ IF inTransaction[c]
       THEN /\ inTransaction' = Connection_rollback(inTransaction, c)
            /\ hasStmt' = Connection_clear(hasStmt, c)
       ELSE UNCHANGED <<inTransaction, hasStmt>>
    /\ Goto(t, IF rolledBack THEN "ret_clear" ELSE "ret_clear_logged")
    /\ UNCHANGED <<pool, available, nextId, freed, filled, stopped, cfgVars,
                   reaperVars, size, retries>>
    /\ UNCHANGED otherVars

\* ConnectionPool_returnConnection, second step, outside the mutex:
\* Connection_clear(connection)
ReturnClear(t) ==
    /\ pc[t] \in {"ret_clear", "ret_clear_logged"}
    /\ hasStmt' = Connection_clear(hasStmt, con[t])
    /\ Goto(t, IF pc[t] = "ret_clear" THEN "ret_flip" ELSE "ret_flip_logged")
    /\ UNCHANGED <<pool, available, inTransaction, nextId, freed, filled,
                   stopped, cfgVars, reaperVars, localVars, held>>
    /\ UNCHANGED otherVars

\* ------------------------------------------------------- zdb::Connection
\* All the variables of the pool but pc, the locals and last
poolState == <<poolVars, filled, stopped, cfgVars, reaperVars, held>>

\* zdb::ConnectionPool::getConnection, RETURN Connection(c): the Connection
\* object constructed in the scope of t around the connection c that
\* ConnectionPool_getConnectionOrException handed to t
zdb_Connection_ctor(t, c) ==
    /\ pc[t] = "idle"
    /\ ~handle[t].obj
    /\ c \in held[t]
    /\ handle' = [handle EXCEPT ![t] = [obj |-> TRUE, t_ |-> c, was |-> c,
                                        closed |-> FALSE, exit |-> "none"]]
    /\ last' = NoCall
    /\ UNCHANGED <<poolState, pc, localVars>>
    /\ UNCHANGED scopeRest

\* The outcomes of ConnectionPool_getConnectionOrException that THROW
GetFailures == {"open_failed", "max_reached", "retries_exhausted"}

\* zdb::ConnectionPool::getConnection, ELSE branch of except_wrapper: the
\* call of t has just failed, the SQLException becomes an sql_exception that
\* ends the scope that asked for the connection, and no Connection object is
\* constructed
zdb_getConnection_throw(t) ==
    /\ pc[t] = "idle"
    /\ last.t = t /\ last.r \in GetFailures
    /\ ~handle[t].obj
    /\ handle' = [handle EXCEPT ![t] = [NoHandle EXCEPT !.exit = last.r]]
    /\ last' = NoCall
    /\ UNCHANGED <<poolState, pc, localVars>>
    /\ UNCHANGED scopeRest

\* Connection_close(C): the same as ConnectionPool_returnConnection(P, C),
\* up to its Mutex_lock
Connection_close(t, c, rolledBack) ==
    /\ c \in held[t] /\ c \notin freed
    /\ inTransaction[c] \/ rolledBack
    /\ held' = [held EXCEPT ![t] = @ \ {c}]
    /\ con' = [con EXCEPT ![t] = c]
    /\ inTransaction' = IF inTransaction[c]
                        THEN Connection_rollback(inTransaction, c)
                        ELSE inTransaction
    /\ hasStmt' = Connection_clear(hasStmt, c)
    /\ Goto(t, IF rolledBack THEN "ret_flip" ELSE "ret_flip_logged")
    /\ UNCHANGED <<pool, available, nextId, freed, filled, stopped, cfgVars,
                   reaperVars, size, retries>>

\* A setClosed that leaves t_ as it is
setClosed_keep(h) == h

\* zdb::Connection::setClosed(): t_ = nullptr
setClosed(h) == [h EXCEPT !.t_ = NULL]

\* zdb::Connection::close(): if (t_) { Connection_close(t_); setClosed(); }
zdb_Connection_close(t, rolledBack) ==
    /\ pc[t] = "idle"
    /\ handle[t].obj
    /\ IF handle[t].t_ # NULL
       THEN Connection_close(t, handle[t].t_, rolledBack)
       ELSE /\ rolledBack
            /\ Finish(t, "close_noop", 0, FALSE)
            /\ UNCHANGED poolState
    /\ handle' = [handle EXCEPT ![t] = [setClosed(@) EXCEPT !.closed = TRUE]]
    /\ UNCHANGED scopeRest

\* A destructor that does not close
zdb_Connection_dtor_leak(t, rolledBack, how) ==
    /\ pc[t] = "idle"
    /\ handle[t].obj
    /\ rolledBack
    /\ last' = NoCall
    /\ UNCHANGED <<poolState, pc, localVars>>
    /\ handle' = [handle EXCEPT ![t] = [NoHandle EXCEPT !.exit = how]]
    /\ UNCHANGED scopeRest

\* zdb::Connection::~Connection() { if (t_) close(); } when the scope that
\* holds the object ends: normally, or by an sql_exception thrown from
\* prepareStatement, execute or executeQuery that unwinds it
zdb_Connection_dtor(t, rolledBack, how) ==
    /\ pc[t] = "idle"
    /\ handle[t].obj
    /\ IF handle[t].t_ # NULL
       THEN Connection_close(t, handle[t].t_, rolledBack)
       ELSE /\ rolledBack
            /\ last' = NoCall
            /\ UNCHANGED <<poolState, pc, localVars>>
    /\ handle' = [handle EXCEPT ![t] = [NoHandle EXCEPT !.exit = how]]
    /\ UNCHANGED scopeRest

\* ------------------------------------------------ zdb::PreparedStatement
\* zdb::Connection::prepareStatement: a prepared statement with n
\* placeholders, none of them bound
PrepareStatement(t, n) ==
    /\ pc[t] = "idle"
    /\ paramCount' = n
    /\ params' = [i \in 1..MaxParams |-> Unbound]
    /\ Finish(t, "prepared", n, FALSE)
    /\ UNCHANGED <<poolState, stmtRest>>

\* zdb::PreparedStatement::bind(parameterIndex, x) with an index of the
\* statement: the driver binds x to the placeholder
bind(b, parameterIndex, x) == [b EXCEPT ![parameterIndex] = x]

\* zdb::PreparedStatement::bindValuesHelper(index, arg, rest...):
\* bind(index, arg), then the rest from index + 1 if there is a rest
RECURSIVE bindValuesHelper(_, _, _)
bindValuesHelper(index, args, b) ==
    LET b1 == bind(b, index, Head(args))
    IN  IF Len(Tail(args)) > 0
        THEN bindValuesHelper(index + 1, Tail(args), b1)
        ELSE b1

\* zdb::PreparedStatement::bind(parameterIndex, x) called by the program; an
\* index that is not one of the statement is refused by the driver
Bind(t, parameterIndex, x) ==
    /\ pc[t] = "idle"
    /\ IF parameterIndex \in 1..paramCount
       THEN /\ params' = bind(params, parameterIndex, x)
            /\ Finish(t, "bound", 1, FALSE)
       ELSE /\ params' = params
            /\ Finish(t, "sql_error", 1, FALSE)
    /\ UNCHANGED <<poolState, stmtRest, paramCount>>

\* A bindValues that binds what it can before it looks at the count
BindValues_unchecked(t, args) ==
    /\ pc[t] = "idle"
    /\ IF Len(args) # paramCount
       THEN /\ params' = [i \in 1..MaxParams |->
                            IF i <= Len(args) /\ i <= paramCount
                            THEN args[i] ELSE params[i]]
            /\ Finish(t, "sql_error", Len(args), FALSE)
       ELSE /\ params' = bindValuesHelper(1, args, params)
            /\ Finish(t, "bound", Len(args), FALSE)
    /\ UNCHANGED <<poolState, stmtRest, paramCount>>

\* zdb::PreparedStatement::bindValues(args...): sql_exception if
\* sizeof...(Args) != getParameterCount(), else bindValuesHelper(1, args...)
BindValues(t, args) ==
    /\ pc[t] = "idle"
    /\ IF Len(args) # paramCount
       THEN /\ params' = params
            /\ Finish(t, "sql_error", Len(args), FALSE)
       ELSE /\ params' = bindValuesHelper(1, args, params)
            /\ Finish(t, "bound", Len(args), FALSE)
    /\ UNCHANGED <<poolState, stmtRest, paramCount>>

\* zdb::Connection::bindValues(stmt, args...): int index = 1;
\* (stmt.bind(index++, args), ...): the arguments are bound one after the
\* other from index 1; a bind with an index that is not one of the n
\* placeholders of the statement is refused by the driver and its
\* sql_exception ends the fold.  ok tells whether every bind succeeded.
RECURSIVE Connection_bindValues(_, _, _, _)
Connection_bindValues(n, index, args, b) ==
    IF args = <<>> THEN [ok |-> TRUE, params |-> b]
    ELSE IF index \notin 1..n THEN [ok |-> FALSE, params |-> b]
    ELSE Connection_bindValues(n, index + 1, Tail(args),
                               bind(b, index, Head(args)))

\* zdb::Connection::execute(sql, args...) and executeQuery(sql, args...)
\* with at least one argument: PreparedStatement p(prepareStatement(sql));
\* bindValues(p, args...); p.execute().  n is the number of placeholders
\* of sql.
zdb_Connection_execute(t, n, args) ==
    /\ pc[t] = "idle"
    /\ paramCount' = n
    /\ LET r == Connection_bindValues(n, 1, args,
                                      [i \in 1..MaxParams |-> Unbound])
       IN  /\ params' = r.params
           /\ Finish(t, IF r.ok THEN "executed" ELSE "execute_error",
                     Len(args), FALSE)
    /\ UNCHANGED <<poolState, stmtRest>>

\* ------------------------------------------------------- use of P->mutex
\* For each function of ConnectionPool.c (a function that locks for a part
\* of its body only is split in its parts): whether the part runs between
\* Mutex_lock/LOCK and Mutex_unlock/END_LOCK, the fields of P it reads and
\* the fields it writes
Unlocked(r, w) == [locked |-> FALSE, reads |-> r, writes |-> w]
Locked(r, w) == [locked |-> TRUE, reads |-> r, writes |-> w]

FieldAccess ==
    [ConnectionPool_size |-> Unlocked({"pool"}, {}),
     ConnectionPool_active |-> Locked({"pool", "available"}, {}),
     ConnectionPool_isFull |-> Locked({"pool", "maxConnections"}, {}),
     _findConnection |-> Locked({"pool", "available"}, {"available"}),
     _getConnection_sizeTest |-> Unlocked({"maxConnections"}, {}),
     Connection_new |-> Unlocked({}, {"error"}),
     _createConnection |-> Locked({}, {"pool", "available"}),
     _getConnection_remove |-> Locked({"pool"}, {"pool"}),
     ConnectionPool_returnConnection |-> Locked({}, {"available"}),
     ConnectionPool_reapConnections |->
         Locked({"pool", "available", "initialConnections",
                 "connectionTimeout"}, {"pool"}),
     ConnectionPool_setInitialConnections |->
         Locked({}, {"initialConnections"}),
     ConnectionPool_getInitialConnections |->
         Unlocked({"initialConnections"}, {}),
     ConnectionPool_setMaxConnections_assert |->
         Unlocked({"initialConnections"}, {}),
     ConnectionPool_setMaxConnections |-> Locked({}, {"maxConnections"}),
     ConnectionPool_getMaxConnections |-> Unlocked({"maxConnections"}, {}),
     ConnectionPool_setConnectionTimeout |->
         Unlocked({}, {"connectionTimeout"}),
     ConnectionPool_getConnectionTimeout |->
         Unlocked({"connectionTimeout"}, {}),
     ConnectionPool_setReaper |-> Locked({}, {"doSweep", "sweepInterval"}),
     ConnectionPool_start |->
         Locked({"filled", "doSweep", "initialConnections"},
                {"stopped", "filled", "pool", "error", "reaper"}),
     ConnectionPool_start_throw |-> Unlocked({"filled", "error"}, {}),
     ConnectionPool_stop |->
         Locked({"filled", "doSweep", "reaper", "pool"},
                {"stopped", "filled", "pool"})]

Functions == DOMAIN FieldAccess

\* Thread t enters the part f of a function: Mutex_lock first if the part is
\* a locked one, which waits while another thread holds the mutex
Access_begin(t, f) ==
    /\ acc[t] = "none"
    /\ FieldAccess[f].locked => mutex = "none"
    /\ acc' = [acc EXCEPT ![t] = f]
    /\ mutex' = IF FieldAccess[f].locked THEN t ELSE mutex
    /\ UNCHANGED <<poolState, pc, localVars, last, raceRest>>

\* Thread t is through with the part: Mutex_unlock if it holds the mutex
Access_end(t) ==
    /\ acc[t] # "none"
    /\ acc' = [acc EXCEPT ![t] = "none"]
    /\ mutex' = IF mutex = t THEN "none" ELSE mutex
    /\ UNCHANGED <<poolState, pc, localVars, last, raceRest>>

\* Two parts of functions have a field in common that one of them writes
Conflict(f, g) ==
    \/ FieldAccess[f].writes
          \cap (FieldAccess[g].reads \cup FieldAccess[g].writes) # {}
    \/ FieldAccess[g].writes \cap FieldAccess[f].reads # {}

\* ---------------------------------------------------------- abort handler
\* A ConnectionPool_setAbortHandler that never uninstalls
ConnectionPool_setAbortHandler_bridge(abortHandler) == "bridgeAbortHandler"

\* ConnectionPool_setAbortHandler(P, abortHandler): AbortHandler =
\* abortHandler, whatever P is
ConnectionPool_setAbortHandler(abortHandler) == abortHandler

\* zdb::ConnectionPool::setAbortHandler(abortHandler = nullptr) on pool p:
\* g_abortHandler = std::move(abortHandler);
\* ConnectionPool_setAbortHandler(t_, g_abortHandler ? bridgeAbortHandler
\* : nullptr)
zdb_setAbortHandler(t, p, h) ==
    /\ ~aborted
    /\ g_abortHandler' = h
    /\ AbortHandler' = ConnectionPool_setAbortHandler(
                           IF h # 0 THEN "bridgeAbortHandler" ELSE "NULL")
    /\ recent' = [p |-> p, h |-> [recent.h EXCEPT ![p] = h]]
    /\ last' = [t |-> t, r |-> "set", n |-> 0, pinged |-> FALSE]
    /\ UNCHANGED <<frames, aborted, invoked>>
    /\ UNCHANGED <<poolState, pc, localVars, excRest>>

\* TRY: a new Exception_Frame is put on the Exception_stack of the thread
TRY(t) ==
    /\ ~aborted
    /\ frames[t] < MaxFrames
    /\ frames' = [frames EXCEPT ![t] = @ + 1]
    /\ last' = NoCall
    /\ UNCHANGED <<g_abortHandler, AbortHandler, aborted, invoked, recent>>
    /\ UNCHANGED <<poolState, pc, localVars, excRest>>

\* END_TRY (or ELSE, CATCH, RETURN) of a block no exception was thrown in:
\* pop_Exception_stack
END_TRY(t) ==
    /\ ~aborted
    /\ frames[t] > 0
    /\ frames' = [frames EXCEPT ![t] = @ - 1]
    /\ last' = NoCall
    /\ UNCHANGED <<g_abortHandler, AbortHandler, aborted, invoked, recent>>
    /\ UNCHANGED <<poolState, pc, localVars, excRest>>

\* THROW(e, cause): Exception_throw.  With a frame on the stack of the
\* thread the frame is popped and takes the exception; with none the
\* library calls AbortHandler(message) if one is installed, which in zdbpp.h
\* is bridgeAbortHandler: if (g_abortHandler) g_abortHandler(error); and
\* with no AbortHandler it calls abort(3)
Exception_throw(t, msg) ==
    /\ ~aborted
    /\ IF frames[t] > 0
       THEN /\ frames' = [frames EXCEPT ![t] = @ - 1]
            /\ last' = [t |-> t, r |-> "caught", n |-> msg, pinged |-> FALSE]
            /\ UNCHANGED <<aborted, invoked>>
       ELSE IF AbortHandler # "NULL"
            THEN /\ invoked' = IF g_abortHandler # 0
                               THEN [h |-> g_abortHandler, msg |-> msg]
                               ELSE invoked
                 /\ last' = [t |-> t, r |-> "abort_handler", n |-> msg,
                             pinged |-> FALSE]
                 /\ UNCHANGED <<frames, aborted>>
            ELSE /\ aborted' = TRUE
                 /\ last' = [t |-> t, r |-> "abort", n |-> msg,
                             pinged |-> FALSE]
                 /\ UNCHANGED <<frames, invoked>>
    /\ UNCHANGED <<g_abortHandler, AbortHandler, recent>>
    /\ UNCHANGED <<poolState, pc, localVars, excRest>>

\* ------------------------------------------- the pool vector taken alone
\* The calls of one caller at a time on a pool of up to MaxElems
\* connections, with the operations on the vector that the functions of
\* ConnectionPool.c make.

\* _getConnection: con = _findConnection(P, &size) under the mutex
VecFind(t) ==
    /\ picked = NULL
    /\ picked' = _findConnection(vec, avail)
    /\ avail' = IF picked' # NULL THEN [avail EXCEPT ![picked'] = FALSE]
                ELSE avail
    /\ vec' = vec
    /\ last' = [t |-> t, r |-> "found", n |-> picked', pinged |-> FALSE]
    /\ UNCHANGED <<poolState, pc, localVars, vecRest>>

\* _createConnection: Connection_setAvailable(con, false);
\* Vector_push(P->pool, con) for a connection e that Connection_new made
VecCreate(t, e) ==
    /\ picked = NULL
    /\ e \notin Range(vec)
    /\ avail' = [avail EXCEPT ![e] = FALSE]
    /\ vec' = Vector_push(vec, e)
    /\ picked' = picked
    /\ last' = [t |-> t, r |-> "created", n |-> e, pinged |-> FALSE]
    /\ UNCHANGED <<poolState, pc, localVars, vecRest>>

\* _getConnection: Connection_ping(con) of the candidate; if it fails,
\* Vector_remove(P->pool, Vector_indexOf(P->pool, con))
VecPing(t, alive) ==
    /\ picked # NULL
    /\ vec' = IF alive THEN vec
              ELSE Vector_remove(vec, Vector_indexOf(vec, picked))
    /\ picked' = NULL
    /\ avail' = avail
    /\ last' = [t |-> t, r |-> IF alive THEN "ok" ELSE "evicted", n |-> picked,
                pinged |-> alive]
    /\ UNCHANGED <<poolState, pc, localVars, vecRest>>

\* ConnectionPool_returnConnection: Connection_setAvailable(connection, true)
VecReturn(t, e) ==
    /\ e \in Range(vec) /\ ~avail[e] /\ e # picked
    /\ avail' = [avail EXCEPT ![e] = TRUE]
    /\ UNCHANGED <<vec, picked>>
    /\ last' = [t |-> t, r |-> "returned", n |-> e, pinged |-> FALSE]
    /\ UNCHANGED <<poolState, pc, localVars, vecRest>>

\* ConnectionPool_reapConnections with initialConnections = init
VecReap(t, init, expired, pingOk) ==
    /\ LET s == _reapConnections(vec, avail, init, expired, pingOk) IN
         /\ vec' = s.pool
         /\ last' = [t |-> t, r |-> "reaped", n |-> s.n, pinged |-> FALSE]
    /\ UNCHANGED <<avail, picked>>
    /\ UNCHANGED <<poolState, pc, localVars, vecRest>>

\* ---------------------------------------------------------------- isFull
\* ConnectionPool_isFull(P): under the mutex,
\* full = Vector_size(P->pool) >= P->maxConnections; n is 1 for true
ConnectionPool_isFull(t) ==
    /\ pc[t] = "idle"
    /\ Finish(t, "isFull",
              IF Vector_size(pool) >= maxConnections THEN 1 ELSE 0, FALSE)
    /\ UNCHANGED <<poolVars, filled, stopped, cfgVars, reaperVars, held>>
    /\ UNCHANGED otherVars

\* ------------------------------------------------------------------ reap
\* ConnectionPool_reapConnections(P): _reapConnections under the mutex.
\* expired are the connections with lastAccessedTime < timedout, pingOk those
\* whose ping would succeed.
Reap(t, expired, pingOk) ==
    /\ pc[t] = "idle"
    /\ LET s == _reapConnections(pool, available, initialConnections,
                                 expired, pingOk) IN
         /\ pool' = s.pool
         /\ freed' = freed \cup (Range(pool) \ Range(s.pool))
         /\ Finish(t, "reaped", s.n, FALSE)
    /\ UNCHANGED <<available, inTransaction, hasStmt, nextId, filled, stopped,
                   cfgVars, reaperVars, held>>
    /\ UNCHANGED otherVars

\* _doSweep up to its first Sem_timeWait: Mutex_lock; while (! P->stopped)
ReaperEnter(r) ==
    /\ reaperPc[r] = "start"
    /\ reaperPc' = [reaperPc EXCEPT ![r] = IF stopped THEN "exited" ELSE "wait"]
    /\ UNCHANGED <<poolVars, filled, stopped, cfgVars, reaper, pc, localVars,
                   held>>
    /\ last' = NoCall
    /\ UNCHANGED otherVars

\* _doSweep: Sem_timeWait returns (timeout or signal) with the mutex held;
\* if (P->stopped) break; _reapConnections(P); and back to the wait
ReaperSweep(r, expired, pingOk) ==
    /\ reaperPc[r] = "wait"
    /\ IF stopped
       THEN /\ reaperPc' = [reaperPc EXCEPT ![r] = "exited"]
            /\ UNCHANGED <<pool, freed>>
       ELSE LET s == _reapConnections(pool, available, initialConnections,
                                      expired, pingOk) IN
              /\ pool' = s.pool
              /\ freed' = freed \cup (Range(pool) \ Range(s.pool))
              /\ UNCHANGED reaperPc
    /\ UNCHANGED <<available, inTransaction, hasStmt, nextId, filled, stopped,
                   cfgVars, reaper, pc, localVars, held>>
    /\ last' = NoCall
    /\ UNCHANGED otherVars

\* ------------------------------------------------------------------ Next
\* The connections of the pool that are available
Idle(v, av) == {c \in Range(v) : av[c]}

\* The calls of the pool interface made by the caller threads.  The reap
\* reads lastAccessedTime of idle connections only, and pings only those
\* that have not expired.
PoolCall ==
    \/ \E t \in Threads, n \in 0..MaxCfg : SetInitialConnections(t, n)
    \/ \E t \in Threads, n \in 0..MaxCfg : SetMaxConnections(t, n)
    \/ \E t \in Threads : Start(t)
    \/ \E t \in Threads : StartCheck(t)
    \/ \E t \in Threads : StopCheck(t)
    \/ \E t \in Threads : StopDrain(t)
    \/ \E t \in Threads : GetFind(t)
    \/ \E t \in Threads, opened \in BOOLEAN : GetCreate(t, opened)
    \/ \E t \in Threads : GetPush(t)
    \/ \E t \in Threads, alive \in BOOLEAN : GetPing(t, alive)
    \/ \E t \in Threads : GetEvict(t)
    \/ \E t \in Threads, c \in ConnIds, ok \in BOOLEAN : Return(t, c, ok)
    \/ \E t \in Threads : ReturnFlip(t)
    \/ \E t \in Threads, e \in SUBSET Idle(pool, available) :
          \E p \in SUBSET (Idle(pool, available) \ e) : Reap(t, e, p)

\* A pool on which setReaper is never called: no reaper thread
Next == PoolCall

Spec == Init /\ [][Next]_vars

\* A pool with a reaper thread
NextReaper ==
    \/ PoolCall
    \/ \E t \in Threads, s \in 0..MaxCfg : SetReaper(t, s)
    \/ \E t \in Threads : StopJoin(t)
    \/ \E r \in ReaperIds : ReaperEnter(r)
    \/ \E r \in ReaperIds, e \in SUBSET Idle(pool, available) :
          \E p \in SUBSET (Idle(pool, available) \ e) : ReaperSweep(r, e, p)

SpecReaper == Init /\ [][NextReaper]_vars

\* The life cycle of a pool with a reaper thread: configuration, start and
\* stop by the caller threads, and the reaper thread
NextLife ==
    \/ \E t \in Threads, n \in 0..MaxCfg : SetInitialConnections(t, n)
    \/ \E t \in Threads, s \in 0..MaxCfg : SetReaper(t, s)
    \/ \E t \in Threads : Start(t)
    \/ \E t \in Threads : StartCheck(t)
    \/ \E t \in Threads : StopCheck(t)
    \/ \E t \in Threads : StopDrain(t)
    \/ \E t \in Threads : StopJoin(t)
    \/ \E r \in ReaperIds : ReaperEnter(r)
    \/ \E r \in ReaperIds, e \in SUBSET Idle(pool, available) :
          \E p \in SUBSET (Idle(pool, available) \ e) : ReaperSweep(r, e, p)

SpecLife == Init /\ [][NextLife]_vars

\* A call that has begun runs to its end, the reaper thread is scheduled and
\* its pthread_cond_timedwait returns (signal or timeout), pings terminate
FairLife ==
    /\ SpecLife
    /\ \A t \in Threads : /\ WF_vars(StartCheck(t))
                           /\ WF_vars(StopDrain(t))
                           /\ WF_vars(StopJoin(t))
    /\ \A r \in ReaperIds :
          /\ WF_vars(ReaperEnter(r))
          /\ WF_vars(\E e \in SUBSET Idle(pool, available) :
                       \E p \in SUBSET (Idle(pool, available) \ e) :
                          ReaperSweep(r, e, p))

\* A pool whose callers run transactions and statements on the connections
\* they hold
NextUse ==
    \/ PoolCall
    \/ \E t \in Threads, c \in ConnIds : BeginTransaction(t, c)
    \/ \E t \in Threads, c \in ConnIds : Execute(t, c)

SpecUse == Init /\ [][NextUse]_vars

\* A started pool whose sizes stay as configured: after ConnectionPool_new,
\* setInitialConnections(i), setMaxConnections(m) with i <= m, and a start
\* whose opens all succeed, only getConnection and returnConnection are called.
InitGet ==
    \E i \in 0..MaxCfg : \E m \in i..MaxCfg :
        /\ pool = PushAll(<<>>, 1, i)
        /\ available = [c \in ConnIds |-> c <= i]
        /\ inTransaction = [c \in ConnIds |-> FALSE]
        /\ hasStmt = [c \in ConnIds |-> FALSE]
        /\ nextId = i + 1
        /\ freed = {}
        /\ filled = TRUE
        /\ doSweep = FALSE
        /\ stopped = FALSE
        /\ maxConnections = m
        /\ initialConnections = i
        /\ reaper = NULL
        /\ reaperPc = [r \in ReaperIds |-> "none"]
        /\ pc = [t \in Threads |-> "idle"]
        /\ con = [t \in Threads |-> NULL]
        /\ size = [t \in Threads |-> 0]
        /\ retries = [t \in Threads |-> 0]
        /\ held = [t \in Threads |-> {}]
        /\ last = NoCall
        /\ InitOther

NextGet ==
    \/ \E t \in Threads : GetFind(t)
    \/ \E t \in Threads, opened \in BOOLEAN : GetCreate(t, opened)
    \/ \E t \in Threads : GetPush(t)
    \/ \E t \in Threads, alive \in BOOLEAN : GetPing(t, alive)
    \/ \E t \in Threads : GetEvict(t)
    \/ \E t \in Threads, c \in ConnIds, ok \in BOOLEAN : Return(t, c, ok)
    \/ \E t \in Threads : ReturnFlip(t)
    \/ \E t \in Threads : ConnectionPool_isFull(t)

SpecGet == InitGet /\ [][NextGet]_vars

\* A started pool as for InitGet, at the moment the getConnection of the
\* first thread has been through k iterations that ended in a failed ping
\* and an eviction (the connections evicted are not listed) and is about to
\* begin the next one; k = 0 is InitGet
InitRetry ==
    \E i \in 0..MaxCfg : \E m \in i..MaxCfg : \E k \in 0..(maxRetries - 1) :
        /\ pool = PushAll(<<>>, 1, i)
        /\ available = [c \in ConnIds |-> c <= i]
        /\ inTransaction = [c \in ConnIds |-> FALSE]
        /\ hasStmt = [c \in ConnIds |-> FALSE]
        /\ nextId = i + 1
        /\ freed = {}
        /\ filled = TRUE
        /\ doSweep = FALSE
        /\ stopped = FALSE
        /\ maxConnections = m
        /\ initialConnections = i
        /\ reaper = NULL
        /\ reaperPc = [r \in ReaperIds |-> "none"]
        /\ pc = [t \in Threads |->
                   IF t = "t1" /\ k > 0 THEN "get_find" ELSE "idle"]
        /\ con = [t \in Threads |-> NULL]
        /\ size = [t \in Threads |-> 0]
        /\ retries = [t \in Threads |-> IF t = "t1" THEN k ELSE 0]
        /\ held = [t \in Threads |-> {}]
        /\ last = NoCall
        /\ InitOther

\* The next step of the call thread t is in
CallStep(t) ==
    \/ pc[t] = "get_find" /\ GetFind(t)
    \/ \E opened \in BOOLEAN : GetCreate(t, opened)
    \/ GetPush(t)
    \/ \E alive \in BOOLEAN : GetPing(t, alive)
    \/ GetEvict(t)
    \/ ReturnFlip(t)

\* A thread that is in a call is scheduled, the driver answers every open
\* and every ping, and the mutex is given to a thread that waits for it
FairRetry ==
    /\ InitRetry /\ [][NextGet]_vars
    /\ \A t \in Threads : WF_vars(CallStep(t))

\* A started pool used through the C++ interface: connections are acquired
\* with zdb::ConnectionPool::getConnection into a Connection object, used,
\* and given back by close() or by the destructor of the object
NextScope ==
    \/ \E t \in Threads : GetFind(t)
    \/ \E t \in Threads, opened \in BOOLEAN : GetCreate(t, opened)
    \/ \E t \in Threads : GetPush(t)
    \/ \E t \in Threads, alive \in BOOLEAN : GetPing(t, alive)
    \/ \E t \in Threads : GetEvict(t)
    \/ \E t \in Threads : zdb_getConnection_throw(t)
    \/ \E t \in Threads, c \in ConnIds : zdb_Connection_ctor(t, c)
    \/ \E t \in Threads, c \in ConnIds : BeginTransaction(t, c)
    \/ \E t \in Threads, c \in ConnIds : Execute(t, c)
    \/ \E t \in Threads, ok \in BOOLEAN : zdb_Connection_close(t, ok)
    \/ \E t \in Threads, ok \in BOOLEAN :
          \E how \in {"normal", "exception"} : zdb_Connection_dtor(t, ok, how)
    \/ \E t \in Threads : ReturnFlip(t)

SpecScope == InitGet /\ [][NextScope]_vars

\* A prepared statement of any number of placeholders, bound value by value
\* or with bindValues, by argument packs of every length
NextBind ==
    \/ \E t \in Threads, n \in 0..MaxParams : PrepareStatement(t, n)
    \/ \E t \in Threads, i \in 1..MaxParams, x \in Values : Bind(t, i, x)
    \/ \E t \in Threads, args \in ArgPacks : BindValues(t, args)

SpecBind == Init /\ [][NextBind]_vars

\* Statements prepared and bound by the program, and statements executed
\* with their arguments through zdb::Connection
NextExec ==
    \/ NextBind
    \/ \E t \in Threads, n \in 0..MaxParams, args \in ArgPacks :
          zdb_Connection_execute(t, n, args)

SpecExec == Init /\ [][NextExec]_vars

\* Threads that call the functions of ConnectionPool.c on one pool in any
\* order, each function taking the mutex where its code does
NextRace ==
    \/ \E t \in Threads, f \in Functions : Access_begin(t, f)
    \/ \E t \in Threads : Access_end(t)

SpecRace == Init /\ [][NextRace]_vars

\* A started pool whose callers begin, commit and roll back transactions on
\* the connections they hold
NextTx ==
    \/ \E t \in Threads : GetFind(t)
    \/ \E t \in Threads, opened \in BOOLEAN : GetCreate(t, opened)
    \/ \E t \in Threads : GetPush(t)
    \/ \E t \in Threads, alive \in BOOLEAN : GetPing(t, alive)
    \/ \E t \in Threads : GetEvict(t)
    \/ \E t \in Threads, c \in ConnIds : BeginTransaction(t, c)
    \/ \E t \in Threads, c \in ConnIds : Execute(t, c)
    \/ \E t \in Threads, c \in ConnIds, done \in BOOLEAN : Commit(t, c, done)
    \/ \E t \in Threads, c \in ConnIds, done \in BOOLEAN :
          Rollback(t, c, done)
    \/ \E t \in Threads, c \in ConnIds, rolledBack \in BOOLEAN :
          Return(t, c, rolledBack)
    \/ \E t \in Threads : ReturnFlip(t)

SpecTx == InitGet /\ [][NextTx]_vars

\* A started pool whose connections are used in transactions and given
\* back, returnConnection taken one step at a time
NextReturn ==
    \/ \E t \in Threads : GetFind(t)
    \/ \E t \in Threads, opened \in BOOLEAN : GetCreate(t, opened)
    \/ \E t \in Threads : GetPush(t)
    \/ \E t \in Threads, alive \in BOOLEAN : GetPing(t, alive)
    \/ \E t \in Threads : GetEvict(t)
    \/ \E t \in Threads, c \in ConnIds : BeginTransaction(t, c)
    \/ \E t \in Threads, c \in ConnIds : Execute(t, c)
    \/ \E t \in Threads, c \in ConnIds, rolledBack \in BOOLEAN :
          ReturnRollback(t, c, rolledBack)
    \/ \E t \in Threads : ReturnClear(t)
    \/ \E t \in Threads : ReturnFlip(t)

SpecReturn == InitGet /\ [][NextReturn]_vars

\* A process with several pools whose threads install and remove abort
\* handlers and throw exceptions inside and outside TRY blocks
NextAbort ==
    \/ \E t \in Threads, p \in Pools, h \in Handlers :
          zdb_setAbortHandler(t, p, h)
    \/ \E t \in Threads : TRY(t)
    \/ \E t \in Threads : END_TRY(t)
    \/ \E t \in Threads, msg \in Messages : Exception_throw(t, msg)

SpecAbort == Init /\ [][NextAbort]_vars

\* The pool vector with up to MaxElems connections under the calls that
\* search it, append to it and remove from it
NextVec ==
    \/ \E t \in Threads : VecFind(t)
    \/ \E t \in Threads, e \in Elems : VecCreate(t, e)
    \/ \E t \in Threads, alive \in BOOLEAN : VecPing(t, alive)
    \/ \E t \in Threads, e \in Elems : VecReturn(t, e)
    \/ \E t \in Threads, init \in 0..MaxCfg :
          \E expired \in SUBSET Idle(vec, avail) :
             \E pingOk \in SUBSET (Idle(vec, avail) \ expired) :
                VecReap(t, init, expired, pingOk)

SpecVec == Init /\ [][NextVec]_vars

\* ------------------------------------------------- the TRY statement
\* TRY S CATCH(e1) S1 .. CATCH(en) Sn [ELSE Se] [FINALLY Sf] END_TRY as the
\* macros of Exception.h expand it, for one thread, nested up to MaxNest.
MaxNest == 2

Exception_entered == 0
Exception_thrown == 1
Exception_handled == 2
Exception_finalized == 3

\* The exceptions of the library a program throws and catches
Exceptions == {"SQLException", "AssertException"}

\* pop_Exception_stack: the stack becomes the prev of its top frame
pop_Exception_stack(stack) == SubSeq(stack, 1, Len(stack) - 1)

\* The record of a TRY statement f that control has left: by its END_TRY
\* without an exception ("end"), by the RETHROW of END_TRY ("rethrow"), by
\* a longjmp out of it to a frame of an enclosing statement ("abandoned"),
\* or because no frame was left to take an exception ("aborted"); after is
\* the Exception_stack at that moment
Left(f, how, after) == [how |-> how, f |-> f, after |-> after]

\* Exception_throw(e, ..) with the statements s.stmts open and s.stack the
\* Exception_stack: the top frame takes the exception and is popped, and
\* longjmp(env, Exception_thrown) resumes its statement at the setjmp of
\* TRY, which leaves every statement nested in it; there the first CATCH(e)
\* (or ELSE) sets Exception_handled and runs its block; with none the
\* FINALLY block is run with Exception_thrown still set; with neither,
\* END_TRY does the RETHROW.  With no frame the exception is uncaught.
RECURSIVE Throw(_, _)
Throw(s, e) ==
    IF s.stack = <<>>
    THEN [stmts |-> <<>>, stack |-> <<>>, unc |-> e,
          left |-> s.left \cup {Left(s.stmts[i], "aborted", <<>>) :
                                   i \in 1..Len(s.stmts)}]
    ELSE LET p == s.stack[Len(s.stack)]
             f == [s.stmts[p] EXCEPT !.exception = e,
                                     !.Exception_flag = Exception_thrown]
             popped == pop_Exception_stack(s.stack)
             outer == SubSeq(s.stmts, 1, p - 1)
             gone == {Left(s.stmts[i], "abandoned", popped) :
                         i \in (p + 1)..Len(s.stmts)}
         IN  IF e \in f.catches
             THEN [stmts |-> Append(outer,
                                [f EXCEPT !.Exception_flag = Exception_handled,
                                          !.at = "catch"]),
                   stack |-> popped, unc |-> s.unc,
                   left |-> s.left \cup gone]
             ELSE IF f.fin
             THEN [stmts |-> Append(outer, [f EXCEPT !.at = "finally",
                                                     !.ran = @ + 1]),
                   stack |-> popped, unc |-> s.unc,
                   left |-> s.left \cup gone]
             ELSE Throw([stmts |-> outer, stack |-> popped, unc |-> s.unc,
                         left |-> s.left \cup gone
                                     \cup {Left(f, "rethrow", popped)}], e)

\* TRY: Exception_frame.prev = the stack; the stack = &Exception_frame;
\* Exception_flag = setjmp(..) = Exception_entered; control is in S.
\* catches are the exceptions of the CATCH clauses of the statement (all
\* of them when it has an ELSE), fin whether it has a FINALLY.
TRY_stmt(catches, fin) ==
    /\ uncaught = "none"
    /\ Len(tstmts) < MaxNest
    /\ tstmts' = Append(tstmts,
                    [Exception_flag |-> Exception_entered,
                     exception |-> "none", at |-> "body",
                     catches |-> catches, fin |-> fin, ran |-> 0,
                     prev |-> Exception_stack])
    /\ Exception_stack' = Append(Exception_stack, Len(tstmts) + 1)
    /\ tleft' = {}
    /\ UNCHANGED uncaught
    /\ last' = NoCall
    /\ UNCHANGED <<poolState, pc, localVars, tryRest>>

\* Control reaches the end of the block it is in, in the innermost
\* statement.  Every block ends in
\* if (Exception_flag == Exception_entered) pop_Exception_stack.  After S
\* and after a CATCH block comes the FINALLY block if there is one, which
\* begins with if (Exception_flag == Exception_entered) Exception_flag =
\* Exception_finalized; after the last block comes END_TRY:
\* if (Exception_flag == Exception_thrown) RETHROW.
Block_end ==
    /\ uncaught = "none"
    /\ tstmts # <<>>
    /\ LET f == tstmts[Len(tstmts)]
           outer == SubSeq(tstmts, 1, Len(tstmts) - 1)
           stack == IF f.Exception_flag = Exception_entered
                    THEN pop_Exception_stack(Exception_stack)
                    ELSE Exception_stack
       IN  IF f.at # "finally" /\ f.fin
           THEN /\ tstmts' = Append(outer,
                     [f EXCEPT !.at = "finally", !.ran = @ + 1,
                               !.Exception_flag =
                                   IF @ = Exception_entered
                                   THEN Exception_finalized ELSE @])
                /\ Exception_stack' = stack
                /\ tleft' = {}
                /\ UNCHANGED uncaught
           ELSE IF f.Exception_flag = Exception_thrown
           THEN LET s == Throw([stmts |-> outer, stack |-> stack,
                                unc |-> uncaught,
                                left |-> {Left(f, "rethrow", stack)}],
                               f.exception)
                IN  /\ tstmts' = s.stmts
                    /\ Exception_stack' = s.stack
                    /\ tleft' = s.left
                    /\ uncaught' = s.unc
           ELSE /\ tstmts' = outer
                /\ Exception_stack' = stack
                /\ tleft' = {Left(f, "end", stack)}
                /\ UNCHANGED uncaught
    /\ last' = NoCall
    /\ UNCHANGED <<poolState, pc, localVars, tryRest>>

\* THROW(e, cause) or RETHROW at the place control is at: in a block of the
\* innermost statement, or outside every TRY statement
THROW(e) ==
    /\ uncaught = "none"
    /\ LET s == Throw([stmts |-> tstmts, stack |-> Exception_stack,
                       unc |-> uncaught, left |-> {}], e)
       IN  /\ tstmts' = s.stmts
           /\ Exception_stack' = s.stack
           /\ tleft' = s.left
           /\ uncaught' = s.unc
    /\ last' = NoCall
    /\ UNCHANGED <<poolState, pc, localVars, tryRest>>

\* A thread that runs TRY statements, nested, and throws in their blocks
NextTry ==
    \/ \E catches \in SUBSET Exceptions, fin \in BOOLEAN :
          TRY_stmt(catches, fin)
    \/ Block_end
    \/ \E e \in Exceptions : THROW(e)

SpecTry == Init /\ [][NextTry]_vars

\* ------------------------------------------------------------ Str_parseInt
\* Strings are sequences of characters of up to MaxStr characters.  The
\* widths of int and long are scaled down to IntBits and LongBits bits
\* (32 and 64 on the LP64 platforms the library is built for): what matters
\* is that long is wider than int.
MaxStr == 3
IntBits == 4
LongBits == 6

INT_MAX == 2 ^ (IntBits - 1) - 1
INT_MIN == 0 - 2 ^ (IntBits - 1)
LONG_MAX == 2 ^ (LongBits - 1) - 1
LONG_MIN == 0 - 2 ^ (LongBits - 1)

Digits == <<"0", "1", "2", "3", "4", "5", "6", "7", "8", "9">>

\* The characters of the strings tried: white space, the signs, the
\* digits and a letter
StrChars == {" ", "-", "+", "x"} \cup Range(Digits)

Strings == UNION {[1..n -> StrChars] : n \in 0..MaxStr}

isdigit(ch) == ch \in Range(Digits)
isspace(ch) == ch = " "

\* The value of a digit
DigitVal(ch) == (CHOOSE i \in 1..Len(Digits) : Digits[i] = ch) - 1

\* The number the digits s[from..to] write in base 10
RECURSIVE Decimal(_, _, _)
Decimal(s, from, to) ==
    IF to < from THEN 0
    ELSE 10 * Decimal(s, from, to - 1) + DigitVal(s[to])

\* strtol(s, &e, 10): leading white space is skipped, then an optional
\* sign, then the longest run of digits.  e is the offset of the first
\* character not converted, 0 (e == s) if there is no digit; a value that
\* long cannot hold gives LONG_MAX or LONG_MIN and errno = ERANGE.
strtol(s) ==
    LET n == Len(s)
        sp == CHOOSE k \in 0..n :
                 /\ \A i \in 1..k : isspace(s[i])
                 /\ k = n \/ ~isspace(s[k + 1])
        neg == sp < n /\ s[sp + 1] = "-"
        d0 == IF sp < n /\ s[sp + 1] \in {"-", "+"} THEN sp + 1 ELSE sp
        dn == CHOOSE k \in d0..n :
                 /\ \A i \in (d0 + 1)..k : isdigit(s[i])
                 /\ k = n \/ ~isdigit(s[k + 1])
        mag == Decimal(s, d0 + 1, dn)
        val == IF neg THEN 0 - mag ELSE mag
    IN  IF dn = d0 THEN [value |-> 0, e |-> 0, errno |-> FALSE]
        ELSE IF val > LONG_MAX
             THEN [value |-> LONG_MAX, e |-> dn, errno |-> TRUE]
        ELSE IF val < LONG_MIN
             THEN [value |-> LONG_MIN, e |-> dn, errno |-> TRUE]
        ELSE [value |-> val, e |-> dn, errno |-> FALSE]

\* (int) of a long: the low IntBits bits, in two's complement
int(v) == ((v + 2 ^ (IntBits - 1)) % (2 ^ IntBits)) - 2 ^ (IntBits - 1)

\* STR_UNDEF(s): s is NULL or the empty string
STR_UNDEF(s) == s.null \/ s.chars = <<>>

\* Str_parseInt(s): THROW(SQLException) if STR_UNDEF(s); i = (int)strtol(s,
\* &e, 10); THROW(SQLException) if (errno || (e == s)); return i
Str_parseInt(s) ==
    IF STR_UNDEF(s)
    THEN [done |-> TRUE, raised |-> TRUE, value |-> 0]
    ELSE LET r == strtol(s.chars)
             i == int(r.value)
         IN  IF r.errno \/ r.e = 0
             THEN [done |-> TRUE, raised |-> TRUE, value |-> 0]
             ELSE [done |-> TRUE, raised |-> FALSE, value |-> i]

\* A call of Str_parseInt with the string str
ParseInt ==
    /\ ~parsed.done
    /\ parsed' = Str_parseInt(str)
    /\ UNCHANGED str
    /\ last' = NoCall
    /\ UNCHANGED <<poolState, pc, localVars, strRest>>

\* Str_parseInt is given NULL or any string
InitParse ==
    /\ InitPool
    /\ InitWrappers
    /\ \/ str = NoStr
       \/ \E s \in Strings : str = [null |-> FALSE, chars |-> s]
    /\ parsed = NotParsed
    /\ InitTimeNone

SpecParse == InitParse /\ [][ParseInt]_vars

\* --------------------------------------------------------- Time_toDateTime
\* The string is given as the sequence of lexemes the re2c scanner of
\* Time_toDateTime cuts it into, each with the text it matched: a date
\* (yyyy x dd x dd), a time (dd x dd x dd), a time zone ([-+]dd ':' dd or
\* [-+]dd dd) or any other character.  Up to MaxTokens lexemes.
MaxTokens == 2

\* The texts tried for each field: the ends of its range and the values
\* next to them
YearTexts == {<<"2", "0", "1", "3">>}
MonthTexts == {<<"0", "0">>, <<"0", "1">>, <<"1", "2">>, <<"1", "3">>}
DayTexts == {<<"0", "0">>, <<"0", "1">>, <<"3", "1">>, <<"3", "2">>}
HourTexts == {<<"0", "0">>, <<"2", "3">>, <<"2", "4">>}
MinTexts == {<<"5", "9">>, <<"6", "0">>}
SecTexts == {<<"6", "0">>, <<"6", "1">>}

Lexemes ==
    {[kind |-> "date", text |-> y \o <<"-">> \o m \o <<"-">> \o d] :
        y \in YearTexts, m \in MonthTexts, d \in DayTexts}
    \cup {[kind |-> "time", text |-> h \o <<":">> \o m \o <<":">> \o s] :
             h \in HourTexts, m \in MinTexts, s \in SecTexts}
    \cup {[kind |-> "tz", text |-> <<"+", "0", "1", ":", "3", "0">>],
          [kind |-> "tz", text |-> <<"-", "0", "2", "0", "0">>],
          [kind |-> "any", text |-> <<" ">>]}

\* The lexemes of a kind in a string
Parts(s, kind) == {i \in 1..Len(s) : s[i].kind = kind}

\* The column values tried: at most one date and at most one time
TimeStrings ==
    {s \in UNION {[1..n -> Lexemes] : n \in 0..MaxTokens} :
        /\ Cardinality(Parts(s, "date")) <= 1
        /\ Cardinality(Parts(s, "time")) <= 1}

\* _a2i(a + off, l): the number the l characters from a[off] write
RECURSIVE _a2i(_, _, _)
_a2i(a, off, l) ==
    IF l = 0 THEN 0
    ELSE _a2i(a, off, l - 1) * 10 + DigitVal(a[off + l])

_isValidDate(tm) ==
    (tm.tm_mday < 32 /\ tm.tm_mday >= 1) /\ (tm.tm_mon < 12 /\ tm.tm_mon >= 0)

_isValidTime(tm) ==
    /\ (tm.tm_hour < 24 /\ tm.tm_hour >= 0)
    /\ (tm.tm_min < 60 /\ tm.tm_min >= 0)
    /\ (tm.tm_sec < 61 /\ tm.tm_sec >= 0)

\* The loop of Time_toDateTime from lexeme i on, with the local tm and the
\* flags have_date and have_time: each rule stores its fields in tm and
\* sets its flag to the validity of what it stored; at the end of the
\* string tm is returned if (have_date || have_time), else SQLException
RECURSIVE scan(_, _, _, _, _)
scan(s, i, tm, have_date, have_time) ==
    IF i > Len(s)
    THEN IF have_date \/ have_time
         THEN [done |-> TRUE, raised |-> FALSE, tm |-> tm]
         ELSE [done |-> TRUE, raised |-> TRUE, tm |-> ZeroTm]
    ELSE LET token == s[i].text IN
         CASE s[i].kind = "date" ->
                LET d == [tm EXCEPT !.tm_year = _a2i(token, 0, 4),
                                    !.tm_mon = _a2i(token, 5, 2) - 1,
                                    !.tm_mday = _a2i(token, 8, 2)]
                IN  scan(s, i + 1, d, _isValidDate(d), have_time)
           [] s[i].kind = "time" ->
                LET d == [tm EXCEPT !.tm_hour = _a2i(token, 0, 2),
                                    !.tm_min = _a2i(token, 3, 2),
                                    !.tm_sec = _a2i(token, 6, 2)]
                IN  scan(s, i + 1, d, have_date, _isValidTime(d))
           [] s[i].kind = "tz" ->
                LET off == _a2i(token, 1, 2) * 3600
                             + (IF isdigit(token[4])
                                THEN _a2i(token, 3, 2) * 60
                                ELSE IF isdigit(token[5])
                                THEN _a2i(token, 4, 2) * 60
                                ELSE 0)
                    d == IF have_time
                         THEN [tm EXCEPT !.tm_gmtoff =
                                  IF token[1] = "-" THEN 0 - off ELSE off]
                         ELSE tm
                IN  scan(s, i + 1, d, have_date, have_time)
           [] OTHER -> scan(s, i + 1, tm, have_date, have_time)

Time_toDateTime(s) == scan(s, 1, ZeroTm, FALSE, FALSE)

\* A call of Time_toDateTime with the string tin
ToDateTime ==
    /\ ~tout.done
    /\ tout' = Time_toDateTime(tin)
    /\ UNCHANGED tin
    /\ last' = NoCall
    /\ UNCHANGED <<poolState, pc, localVars, timeRest>>

\* Time_toDateTime is given any string of these lexemes
InitTime ==
    /\ InitPool
    /\ InitWrappers
    /\ InitStrNone
    /\ tin \in TimeStrings
    /\ tout = NoTime

SpecTime == InitTime /\ [][ToDateTime]_vars

\* A started pool with a running reaper thread, some time later: i initial
\* connections configured, s connections in the vector, each idle or handed
\* out to a caller (h), and so long unused that every idle one has expired.
\* No connection is acquired any more; callers return what they hold and the
\* reaper sweeps.
InitTrim ==
    \E i \in 0..MaxCfg, s \in 0..MaxConns :
      \E h \in [1..s -> Threads \cup {"pool"}] :
        /\ pool = PushAll(<<>>, 1, s)
        /\ available = [c \in ConnIds |-> c <= s /\ h[c] = "pool"]
        /\ inTransaction = [c \in ConnIds |-> FALSE]
        /\ hasStmt = [c \in ConnIds |-> FALSE]
        /\ nextId = s + 1
        /\ freed = {}
        /\ filled = TRUE
        /\ doSweep = TRUE
        /\ stopped = FALSE
        /\ maxConnections = MaxConns
        /\ initialConnections = i
        /\ reaper = 1
        /\ reaperPc = [r \in ReaperIds |-> IF r = 1 THEN "start" ELSE "none"]
        /\ pc = [t \in Threads |-> "idle"]
        /\ con = [t \in Threads |-> NULL]
        /\ size = [t \in Threads |-> 0]
        /\ retries = [t \in Threads |-> 0]
        /\ held = [t \in Threads |-> {c \in 1..s : h[c] = t}]
        /\ last = NoCall
        /\ InitOther

NextTrim ==
    \/ \E t \in Threads, c \in ConnIds, ok \in BOOLEAN : Return(t, c, ok)
    \/ \E t \in Threads : ReturnFlip(t)
    \/ \E r \in ReaperIds : ReaperEnter(r)
    \/ \E r \in ReaperIds : ReaperSweep(r, Idle(pool, available), {})

\* The reaper thread is scheduled and its timed wait returns
FairTrim ==
    /\ InitTrim /\ [][NextTrim]_vars
    /\ \A r \in ReaperIds :
          /\ WF_vars(ReaperEnter(r))
          /\ WF_vars(ReaperSweep(r, Idle(pool, available), {}))

TypeOK ==
    /\ Range(pool) \subseteq ConnIds
    /\ nextId \in 1..(MaxConns + 1)
    /\ \A t \in Threads : held[t] \subseteq ConnIds

\* =================================================================== claims

\* C1: in every reachable state 0 <= active <= size <= max, where size is the
\* length of the pool vector and active the number of its connections that
\* are not available.
C1_ActiveSizeMax ==
    /\ 0 <= _active(pool, available)
    /\ _active(pool, available) <= Vector_size(pool)
    /\ Vector_size(pool) <= maxConnections

\* C2: a connection a caller holds is held by no other caller and is the
\* candidate of no other caller's getConnection, until it has been returned.
C2_MutualExclusion ==
    \A t \in Threads : \A c \in held[t] :
        \A u \in Threads \ {t} : c \notin held[u] /\ con[u] # c

\* C2 witness: one caller holds a connection while another caller has taken
\* a different pooled connection as its candidate.
C2_Witness ==
    \E t \in Threads, u \in Threads :
        /\ t # u
        /\ held[t] # {}
        /\ pc[u] = "get_check"
        /\ con[u] # NULL

\* C3: every connection getConnection returns passed a ping performed
\* during that call, whether it was reused or newly created.
C3_ReturnedConnectionPinged ==
    last.r = "ok" => last.pinged

\* C4: the test pool.len() < max and the push of the new connection are one
\* critical section: with max fixed, a getConnection pushes its new
\* connection only onto a pool that is below max, so size never exceeds max.
C4_TestAndPushAtomic ==
    [][\A t \in Threads :
          (pc[t] = "get_push" /\ pc'[t] = "idle")
              => Vector_size(pool) < maxConnections]_vars

\* C5: a getConnection whose scan finds size >= max and no available
\* connection takes no connection, and with size >= max at its test it ends
\* at once with "max connections reached", leaving the pool vector and every
\* available flag as they were.
C5_FullPoolFailsFast ==
    [][\A t \in Threads :
          /\ (/\ pc[t] \in {"idle", "get_find"}
              /\ pc'[t] = "get_check"
              /\ Vector_size(pool) >= maxConnections
              /\ Idle(pool, available) = {})
                 => /\ con'[t] = NULL
                    /\ size'[t] >= maxConnections
                    /\ pool' = pool
                    /\ available' = available
          /\ (/\ pc[t] = "get_check"
              /\ pc'[t] # "get_check"
              /\ con[t] = NULL
              /\ size[t] >= maxConnections)
                 => /\ pc'[t] = "idle"
                    /\ last' = [t |-> t, r |-> "max_reached", n |-> 0,
                                pinged |-> FALSE]
                    /\ held' = held
                    /\ pool' = pool
                    /\ available' = available
                    /\ nextId' = nextId]_vars

\* C5 witness: a getConnection has just failed with "max connections
\* reached" on a pool at max whose connections are all handed out.
C5_Witness ==
    /\ last.r = "max_reached"
    /\ Vector_size(pool) >= maxConnections
    /\ Vector_size(pool) > 0
    /\ Idle(pool, available) = {}

\* C6: a reap, by ConnectionPool_reapConnections or by a sweep of the reaper
\* thread, leaves every unavailable connection in the pool and unfreed, and
\* the connections handed out and the available flags are the same before
\* and after it.
C6_ReapSparesUnavailable ==
    [][(\/ /\ last'.r = "reaped"
           /\ \E t \in Threads, e \in SUBSET ConnIds, p \in SUBSET ConnIds :
                 Reap(t, e, p)
        \/ /\ last' = NoCall /\ pc' = pc
           /\ \E r \in ReaperIds, e \in SUBSET ConnIds, p \in SUBSET ConnIds :
                 ReaperSweep(r, e, p))
          => /\ \A c \in Range(pool) :
                   ~available[c] => /\ c \in Range(pool')
                                    /\ (c \in freed') = (c \in freed)
             /\ held' = held
             /\ available' = available]_vars

\* C6 witness: a reap has just removed connections from a pool in which a
\* connection is handed out.
C6_Witness ==
    /\ last.r = "reaped"
    /\ last.n > 0
    /\ \E t \in Threads : \E c \in held[t] : c \in Range(pool) /\ ~available[c]

\* C7: one ConnectionPool_reapConnections removes at most
\* max(0, size - active - initial) connections, with size, active and initial
\* as they are when it starts; it returns the number removed, size decreases
\* by exactly that number, and at least min(initial, idle before) idle
\* connections remain.
C7_ReapBounded ==
    [][last'.r = "reaped" =>
          LET x == Vector_size(pool) - _active(pool, available)
                       - initialConnections
              removed == Vector_size(pool) - Vector_size(pool')
              idleBefore == Cardinality(Idle(pool, available))
          IN /\ removed >= 0
             /\ removed <= (IF x > 0 THEN x ELSE 0)
             /\ last'.n = removed
             /\ Range(pool') \subseteq Range(pool)
             /\ Cardinality(Idle(pool', available'))
                    >= (IF initialConnections < idleBefore
                        THEN initialConnections ELSE idleBefore)]_vars

\* C7 witness: a reap has just removed a connection and left exactly the
\* initial number of idle connections, which is not zero.
C7_Witness ==
    /\ last.r = "reaped"
    /\ last.n >= 1
    /\ initialConnections >= 1
    /\ Cardinality(Idle(pool, available)) = initialConnections

\* C8: when returnConnection(c) has completed, c is available, is not in a
\* transaction and has no live ResultSet or PreparedStatement, also when the
\* rollback it attempted failed and was only logged.
C8_ReturnedConnectionClean ==
    last.r \in {"returned", "returned_logged"}
        => /\ available[last.n]
           /\ ~inTransaction[last.n]
           /\ ~hasStmt[last.n]

\* C8 witness: a returnConnection whose rollback failed has just completed.
C8_Witness ==
    /\ last.r = "returned_logged"
    /\ available[last.n]

\* C9: a stop that drains while connections are active changes nothing: no
\* connection leaves the pool or is freed and stopped stays false.
C9_StopRefusedWhileActive ==
    [][\A t \in Threads :
          (/\ pc[t] = "stop_drain"
           /\ pc'[t] # "stop_drain"
           /\ _active(pool, available) > 0)
              => /\ pool' = pool
                 /\ freed' = freed
                 /\ stopped' = stopped]_vars

\* C10: whenever stopped is true the pool vector is empty and no reaper
\* thread of the pool is left.
C10_StoppedPoolEmpty ==
    stopped => /\ pool = <<>>
               /\ \A r \in ReaperIds : reaperPc[r] \in {"none", "joined"}

\* C11: a stop of a started pool with a reaper always terminates: once
\* stop has set stopped and drained the pool, its Thread_join returns, and
\* the reaper it joined has left its loop.
C11_StopTerminates ==
    \A t \in Threads : (pc[t] = "stop_join") ~> (pc[t] = "idle")

\* C12: a start whose first driver open fails leaves the pool unfilled, the
\* vector as it was (empty for a new pool) and spawns no reaper thread, and
\* start then raises the SQL error; a later start whose opens all succeed
\* fills the pool and returns without error.
C12_FailedStartLeavesPoolUnfilled ==
    [][\A t \in Threads :
          /\ (/\ pc[t] = "idle" /\ pc'[t] = "start_check"
              /\ ~filled /\ initialConnections > 0 /\ nextId' = nextId)
                 => /\ ~filled'
                    /\ pool' = pool
                    /\ reaperVars' = reaperVars
          /\ (pc[t] = "start_check" /\ pc'[t] = "idle" /\ ~filled)
                 => /\ last' = [t |-> t, r |-> "sqlerror", n |-> 0,
                                pinged |-> FALSE]
                    /\ ~filled'
                    /\ pool' = pool
                    /\ reaperVars' = reaperVars
          /\ (/\ pc[t] = "idle" /\ pc'[t] = "start_check"
              /\ ~filled /\ nextId' = nextId + initialConnections)
                 => /\ filled'
                    /\ Vector_size(pool')
                           = Vector_size(pool) + initialConnections
          /\ (pc[t] = "start_check" /\ pc'[t] = "idle" /\ filled)
                 => last'.r = "started"]_vars

\* C12 witness: on a new pool configured with a reaper, start has just
\* raised the SQL error.
C12_Witness ==
    /\ last.r = "sqlerror"
    /\ doSweep
    /\ ~filled
    /\ pool = <<>>
    /\ nextId = 1
    /\ reaper = NULL

\* C13: a start of an unfilled, empty pool in which all initial opens
\* succeed gives size = initial and active = 0 (an empty, started pool for
\* initial = 0); a start of a pool that is already filled opens nothing and
\* leaves the vector as it was.
C13_StartFillsToInitial ==
    [][\A t \in Threads :
          /\ (/\ pc[t] = "idle" /\ pc'[t] = "start_check"
              /\ ~filled /\ pool = <<>>
              /\ nextId' = nextId + initialConnections)
                 => /\ filled'
                    /\ Vector_size(pool') = initialConnections
                    /\ _active(pool', available') = 0
          /\ (pc[t] = "idle" /\ pc'[t] = "start_check" /\ filled)
                 => /\ filled'
                    /\ pool' = pool
                    /\ nextId' = nextId
                    /\ available' = available]_vars

\* C13 witness: start has just succeeded on a pool that holds exactly its
\* initial connections, at least one, all of them idle.
C13_Witness ==
    /\ last.r = "started"
    /\ initialConnections >= 1
    /\ Vector_size(pool) = initialConnections
    /\ _active(pool, available) = 0

\* C14: at any time at most one reaper thread of the pool is running,
\* whatever the sequence and interleaving of start and stop calls.
C14_OneReaper ==
    Cardinality({r \in ReaperIds : reaperPc[r] \in {"start", "wait"}}) <= 1

\* C15: with the reaper running and no connection acquired any more, once
\* no connection is active, every idle one has expired and size >= initial,
\* the pool is eventually trimmed to size = initial, and a sweep never takes
\* it below initial.
C15_TrimmedToInitial ==
    /\ []((/\ _active(pool, available) = 0
           /\ Vector_size(pool) >= initialConnections)
              => <>(Vector_size(pool) = initialConnections))
    /\ [][Vector_size(pool) >= initialConnections
              => Vector_size(pool') >= initialConnections]_vars

\* C15 witness: the reaper has closed connections and the pool holds exactly
\* its initial connections, all idle.
C15_Witness ==
    /\ freed # {}
    /\ reaperPc[reaper] = "wait"
    /\ _active(pool, available) = 0
    /\ Vector_size(pool) = initialConnections

C17_ReaperByDefault ==
    (last.r = "started" /\ filled)
        => \E r \in ReaperIds : reaperPc[r] \in {"start", "wait"}

\* C18: setReaper with sweepInterval <= 0 returns without error and leaves
\* the reaper disabled, so that a following start spawns no reaper thread.
C18_SetReaperZeroDisables ==
    [][\A t \in Threads, s \in 0..MaxCfg :
          (s <= 0 /\ SetReaper(t, s))
              => /\ last'.r = "set"
                 /\ ~doSweep']_vars

\* C19: 0 <= initial <= max in every reachable state, for any order of
\* calls of the two setters.
C19_InitialAtMostMax ==
    /\ 0 <= initialConnections
    /\ initialConnections <= maxConnections

\* C20: isFull returns true if and only if active = max; it returns false
\* whenever an idle connection is in the pool.
C20_IsFullIffActiveIsMax ==
    last.r = "isFull"
        => /\ (last.n = 1) <=> (_active(pool, available) = maxConnections)
           /\ Idle(pool, available) # {} => last.n = 0

\* C21: close() on a Connection object whose close() was already called is
\* a no-op: the object then has no connection left to give back, and the
\* call changes no pool state, so a connection another caller has acquired
\* since stays unavailable.
C21_CloseIdempotent ==
    /\ [](\A t \in Threads : handle[t].closed => handle[t].t_ = NULL)
    /\ [][\A t \in Threads :
            (handle[t].closed /\ \E ok \in BOOLEAN : zdb_Connection_close(t, ok))
                => /\ UNCHANGED poolState
                   /\ pc' = pc]_vars

\* C21 witness: a second close() has just returned while the connection the
\* object was constructed with is held, unavailable, by the other caller.
C21_Witness ==
    /\ last.r = "close_noop"
    /\ \E u \in Threads \ {last.t} :
          /\ handle[last.t].was \in held[u]
          /\ ~available[handle[last.t].was]

\* C22: the connection of a Connection object is given back exactly once
\* whatever ends the scope of the object: the destructor gives back a
\* connection no close() gave back before, and gives back nothing after an
\* explicit close(); when the return completes the connection is available
\* again and active is one less, as it was before the acquisition.
C22_HandleReturnedOnce ==
    /\ [](\A t \in Threads :
            (handle[t].obj /\ handle[t].t_ # NULL) => handle[t].t_ \in held[t])
    /\ [][\A t \in Threads :
            (handle[t].obj /\ ~handle'[t].obj)
                => IF handle[t].t_ # NULL
                   THEN /\ handle[t].t_ \notin held'[t]
                        /\ con'[t] = handle[t].t_
                        /\ pc'[t] \in {"ret_flip", "ret_flip_logged"}
                   ELSE /\ UNCHANGED poolState
                        /\ pc' = pc]_vars
    /\ [][\A t \in Threads :
            (pc[t] \in {"ret_flip", "ret_flip_logged"} /\ pc'[t] = "idle")
                => /\ con[t] \in Range(pool')
                   /\ available'[con[t]]
                   /\ _active(pool', available')
                        = _active(pool, available) - 1]_vars

\* C22 witness: an sql_exception has unwound the scope of a Connection
\* object that was not closed, and the return of its connection has just
\* completed.
C22_Witness ==
    /\ last.r \in {"returned", "returned_logged"}
    /\ handle[last.t].exit = "exception"
    /\ ~handle[last.t].obj
    /\ handle[last.t].was = NULL
    /\ available[last.n]

\* C23: bindValues with a number of arguments other than the number of
\* placeholders fails with an SQL error and binds nothing; with the same
\* number it binds the arguments to the indexes 1..N in order.
C23_BindValuesAllOrNothing ==
    [][\A t \in Threads, args \in ArgPacks :
          BindValues(t, args)
              => IF Len(args) # paramCount
                 THEN /\ last'.r = "sql_error"
                      /\ params' = params
                 ELSE /\ last'.r = "bound"
                      /\ \A i \in 1..Len(args) : params'[i] = args[i]
                      /\ \A i \in (Len(args) + 1)..MaxParams :
                            params'[i] = params[i]]_vars

\* C23 witness: bindValues has just failed on a statement with two
\* placeholders of which one was bound before, and still only one is.
C23_Witness ==
    /\ last.r = "sql_error"
    /\ last.n # paramCount
    /\ last.n > 1
    /\ paramCount = 2
    /\ params[1] # Unbound
    /\ params[2] = Unbound

\* C24: a getConnection that fails because the driver cannot open a
\* connection leaves the pool usable: the failing step changes neither the
\* pool nor any available flag nor what callers hold, and afterwards the
\* caller is idle and every unavailable connection of the pool is held by a
\* caller or is the candidate of a call in progress, none being left
\* unavailable by the failed call.
C24_FailedOpenLeavesPoolUsable ==
    /\ [][\A t \in Threads :
            (pc[t] = "get_check" /\ last'.t = t /\ last'.r = "open_failed")
                => /\ pool' = pool
                   /\ available' = available
                   /\ held' = held]_vars
    /\ [](last.r = "open_failed"
            => /\ pc[last.t] = "idle"
               /\ con[last.t] = NULL
               /\ \A c \in Range(pool) :
                     ~available[c]
                         => \E u \in Threads :
                               \/ c \in held[u]
                               \/ u # last.t /\ con[u] = c)

\* C24 witness: a caller whose previous getConnection failed on open, after
\* it had evicted a connection that failed the ping, has now been given a
\* connection.
C24_Witness ==
    /\ last.r = "ok"
    /\ handle[last.t].exit = "open_failed"
    /\ freed # {}
    /\ held[last.t] # {}

\* C25 as stated: the acquisition that finds max connections handed out
\* fails with an SQL error whose message contains both "pool" and "full", in
\* any casing.
C25_MessageSaysPoolFull ==
    last.r = "max_reached"
        => /\ Contains(_getConnection_error(last.r), <<"p", "o", "o", "l">>)
           /\ Contains(_getConnection_error(last.r), <<"f", "u", "l", "l">>)

\* C25: the acquisition that finds no available connection and size >= max
\* fails at once with the SQL error "Failed to create a connection -- max
\* connections reached"; this text contains neither "pool" nor "full", and
\* "max connections reached" is what tells it from a driver's failure to
\* connect, whose text has the same beginning.
C25_MessageSaysMaxReached ==
    /\ [][\A t \in Threads :
            (/\ pc[t] = "get_check"
             /\ pc'[t] # "get_check"
             /\ con[t] = NULL
             /\ size[t] >= maxConnections)
                => last'.t = t /\ last'.r = "max_reached"]_vars
    /\ [](last.r = "max_reached"
            => /\ _getConnection_error(last.r)
                    = FailedToCreate \o MaxConnectionsReached
               /\ Contains(_getConnection_error(last.r),
                           MaxConnectionsReached)
               /\ ~Contains(_getConnection_error(last.r),
                            <<"p", "o", "o", "l">>)
               /\ ~Contains(_getConnection_error(last.r),
                            <<"f", "u", "l", "l">>)
               /\ ~Contains(_getConnection_error("open_failed"),
                            MaxConnectionsReached)
               /\ Contains(_getConnection_error("open_failed"),
                           FailedToCreate))

\* C25 witness: with every connection of a pool at its maximum held by the
\* other caller, a getConnection has just failed with max connections
\* reached.
C25_Witness ==
    /\ last.r = "max_reached"
    /\ maxConnections > 0
    /\ Vector_size(pool) = maxConnections
    /\ \A c \in Range(pool) : \E u \in Threads \ {last.t} : c \in held[u]

\* C26: every access to a field of the pool (pool vector, filled, stopped,
\* error, initial, max, connection timeout, sweep settings, available flags)
\* is made by a thread that holds the pool mutex, and no two threads are in
\* accesses to the same field of which one is a write.
C26_AllUnderMutex ==
    /\ \A t \in Threads :
          (/\ acc[t] # "none"
           /\ FieldAccess[acc[t]].reads \cup FieldAccess[acc[t]].writes # {})
              => mutex = t
    /\ \A t \in Threads : \A u \in Threads \ {t} :
          (acc[t] # "none" /\ acc[u] # "none") => ~Conflict(acc[t], acc[u])

\* C27: a beginTransaction on a connection that is in a transaction is an
\* error that leaves the transaction state of every connection as it was,
\* and a beginTransaction that begins a transaction finds the connection in
\* none, so that a connection is never in more than one; after a commit or
\* a rollback that succeeded the connection is in no transaction.
C27_NoNestedTransaction ==
    [][\A t \in Threads, c \in ConnIds :
          /\ BeginTransaction(t, c)
                => IF inTransaction[c]
                   THEN /\ last'.t = t /\ last'.r = "tx_error"
                        /\ inTransaction' = inTransaction
                        /\ hasStmt' = hasStmt
                   ELSE /\ last'.r # "tx_error"
                        /\ inTransaction'[c]
                        /\ \A d \in ConnIds \ {c} :
                              inTransaction'[d] = inTransaction[d]
          /\ ((\E done \in BOOLEAN : Commit(t, c, done) \/ Rollback(t, c, done))
              /\ last'.r \in {"committed", "rolled_back"})
                => ~inTransaction'[c]]_vars

\* C27 witness: a beginTransaction has just been refused on a connection
\* that is held and in a transaction.
C27_Witness ==
    /\ last.r = "tx_error"
    /\ \E c \in held[last.t] : inTransaction[c] /\ ~available[c]

\* C28: an exception thrown by a thread with no TRY frame makes the library
\* call, with the message of the exception, the abort handler given to the
\* most recent setAbortHandler, whatever pool it was called on; after a
\* setAbortHandler with no argument there is no handler and the process
\* aborts; with a TRY frame no handler is called.
C28_MostRecentAbortHandler ==
    [][\A t \in Threads, msg \in Messages :
          Exception_throw(t, msg)
              => IF frames[t] > 0
                 THEN invoked' = invoked /\ ~aborted'
                 ELSE IF recent.p # 0 /\ recent.h[recent.p] # 0
                      THEN /\ invoked' = [h |-> recent.h[recent.p],
                                          msg |-> msg]
                           /\ ~aborted'
                      ELSE /\ invoked' = invoked
                           /\ aborted']_vars

\* C28 witness: handler 1 was installed through the first pool, handler 2
\* through the second pool after it, and an exception thrown with no TRY
\* frame has just been given to handler 2.
C28_Witness ==
    /\ last.r = "abort_handler"
    /\ recent.p = 2
    /\ recent.h[1] = 1
    /\ recent.h[2] = 2
    /\ invoked = [h |-> 2, msg |-> last.n]
    /\ frames[last.t] = 0

\* C29 as stated: the retry loop of getConnection runs at most max
\* iterations (retries counts the iterations that came before the present
\* one), here for a pool with max > 0.
C29_AtMostMaxIterations ==
    \A t \in Threads :
        (maxConnections > 0 /\ pc[t] \in {"get_check", "get_push", "get_evict"})
            => retries[t] + 1 <= maxConnections

\* C29: getConnection always terminates, also when opens succeed and every
\* ping fails: an iteration of its loop either ends the call (ping success,
\* creation, open failure, max connections reached) or evicts the one
\* connection that failed its ping and counts one retry, and the loop runs
\* at most maxRetries = 10 iterations, the tenth failed ping ending the call
\* with the retries exhausted.
C29_GetTerminates ==
    /\ [](\A t \in Threads : retries[t] < maxRetries)
    /\ [][\A t \in Threads :
            /\ (pc[t] = "get_check" /\ pc'[t] # "get_check")
                  => \/ pc'[t] = "idle" /\ last'.t = t
                        /\ last'.r \in {"ok", "open_failed", "max_reached"}
                     \/ pc'[t] = "get_push" /\ con[t] = NULL
                     \/ pc'[t] = "get_evict" /\ con[t] # NULL
            /\ (pc[t] = "get_evict" /\ pc'[t] # "get_evict")
                  => /\ con[t] \in Range(pool)
                     /\ pool' = Vector_remove(pool,
                                              Vector_indexOf(pool, con[t]))
                     /\ \/ /\ pc'[t] = "get_find"
                           /\ retries'[t] = retries[t] + 1
                        \/ /\ pc'[t] = "idle"
                           /\ retries[t] + 1 = maxRetries
                           /\ last'.t = t
                           /\ last'.r = "retries_exhausted"]_vars
    /\ \A t \in Threads : (pc[t] # "idle") ~> (pc[t] = "idle")

\* C29 witness: a getConnection has just ended with its retries exhausted,
\* after ten pings that failed.
C29_Witness ==
    /\ last.r = "retries_exhausted"
    /\ pc[last.t] = "idle"
    /\ freed # {}

\* C30: getConnection takes the available connection of lowest index in the
\* pool vector, or none if no connection is available; a connection it
\* creates is appended at the end of the vector; and a step that removes
\* connections (eviction, reap) leaves those that remain in the order they
\* had.
C30_FirstAvailableInOrder ==
    [][/\ (\E t \in Threads : VecFind(t))
            => IF picked' # NULL
               THEN \E i \in 1..Len(vec) :
                       /\ vec[i] = picked'
                       /\ avail[vec[i]]
                       /\ \A j \in 1..(i - 1) : ~avail[vec[j]]
               ELSE \A i \in 1..Len(vec) : ~avail[vec[i]]
       /\ \A e \in Elems :
            (\E t \in Threads : VecCreate(t, e))
                => /\ Len(vec') = Len(vec) + 1
                   /\ vec'[Len(vec')] = e
                   /\ \A i \in 1..Len(vec) : vec'[i] = vec[i]
       /\ Range(vec') \subseteq Range(vec)
            => /\ Len(vec') = Cardinality(Range(vec'))
               /\ \A i \in 1..Len(vec) : \A j \in (i + 1)..Len(vec) :
                     (vec[i] \in Range(vec') /\ vec[j] \in Range(vec'))
                         => Vector_indexOf(vec', vec[i])
                               < Vector_indexOf(vec', vec[j])]_vars

\* C30 witness: in a vector of three connections, the first one held and
\* the other two available, getConnection has just taken the second.
C30_Witness ==
    /\ last.r = "found"
    /\ Len(vec) = 3
    /\ picked = vec[2]
    /\ ~avail[vec[1]]
    /\ ~avail[vec[2]]
    /\ avail[vec[3]]

InReturn(c) ==
    \E t \in Threads :
        /\ pc[t] \in {"ret_clear", "ret_clear_logged", "ret_flip",
                      "ret_flip_logged"}
        /\ con[t] = c

\* C32: returnConnection rolls back (when in a transaction), then clears
\* the live statement and result, and only then sets available = true under
\* the mutex.  While the rollback or the clear of a connection is still to
\* run or running, the connection is not available and is neither the
\* candidate of nor held by any other thread; and a connection of the pool
\* becomes available only by the last step of its returnConnection, at
\* which time it is in no transaction and has no live statement.
C32_AvailableOnlyAfterRollbackAndClear ==
    [][/\ \A c \in ConnIds :
            InReturn(c)'
                => /\ ~available'[c]
                   /\ \A u \in Threads :
                        /\ c \notin held'[u]
                        /\ (pc'[u] \in {"get_check", "get_evict"}
                               => con'[u] # c)
       /\ \A c \in Range(pool) :
            (~available[c] /\ available'[c])
                => /\ \E t \in Threads :
                        /\ pc[t] \in {"ret_flip", "ret_flip_logged"}
                        /\ con[t] = c
                        /\ pc'[t] = "idle"
                   /\ ~inTransaction[c]
                   /\ ~hasStmt[c]]_vars

\* C32 witness: a connection that was in a transaction has been through a
\* rollback the driver refused (logged) and through the clear, is still
\* unavailable, and the other thread is scanning the pool at that moment.
C32_Witness ==
    \E t \in Threads : \E u \in Threads \ {t} :
        /\ pc[t] = "ret_flip_logged"
        /\ con[t] \in Range(pool)
        /\ ~available[con[t]]
        /\ ~inTransaction[con[t]]
        /\ ~hasStmt[con[t]]
        /\ pc[u] = "get_find"

\* ---------------------------------------------------------------- C33
\* C33: a start in which the k-th driver open fails with k >= 2 (k - 1
\* opens succeeded, 1 <= k - 1 < initial) counts the pool as filled, keeps
\* exactly the k - 1 connections opened, all idle, spawns the reaper thread
\* when one is enabled (and none otherwise), and then returns without
\* raising.
C33_PartialFillIsSuccess ==
    [][\A t \in Threads :
          /\ (/\ pc[t] = "idle" /\ pc'[t] = "start_check"
              /\ ~filled
              /\ nextId' - nextId \in 1..(initialConnections - 1))
                 => /\ filled'
                    /\ pool = <<>>
                    /\ Vector_size(pool') = nextId' - nextId
                    /\ Vector_size(pool') >= 1
                    /\ Vector_size(pool') < initialConnections
                    /\ Range(pool') = nextId..(nextId' - 1)
                    /\ _active(pool', available') = 0
                    /\ IF doSweep
                       THEN /\ reaper' # NULL
                            /\ reaperPc[reaper'] = "none"
                            /\ reaperPc'[reaper'] = "start"
                       ELSE reaperVars' = reaperVars
          /\ (/\ pc[t] = "start_check" /\ pc'[t] = "idle"
              /\ filled
              /\ Vector_size(pool) \in 1..(initialConnections - 1))
                 => /\ last' = [t |-> t, r |-> "started", n |-> 0,
                                pinged |-> FALSE]
                    /\ pool' = pool
                    /\ filled']_vars

\* C33 witness: start has just returned without error on a pool with a
\* reaper enabled that holds fewer connections than initial, and the reaper
\* thread exists.
C33_Witness ==
    /\ last.r = "started"
    /\ filled
    /\ doSweep
    /\ reaper # NULL
    /\ reaperPc[reaper] # "none"
    /\ Vector_size(pool) >= 1
    /\ Vector_size(pool) < initialConnections
    /\ nextId = Vector_size(pool) + 1

\* ---------------------------------------------------------------- C34
\* The scan of getConnection and what follows it: the scan yields a
\* candidate exactly when the pool has an available connection, and then
\* an existing one; a driver connection is opened only by a call whose scan
\* yielded none; a candidate that passes its ping is handed out with the
\* pool as it was.
C34_CreatesOnlyAfterEmptyScan ==
    /\ \A t \in Threads :
        /\ (pc[t] \in {"idle", "get_find"} /\ pc'[t] = "get_check")
              => IF \E i \in 1..Len(pool) : available[pool[i]]
                 THEN /\ con'[t] \in Range(pool)
                      /\ available[con'[t]]
                      /\ pool' = pool /\ nextId' = nextId
                 ELSE con'[t] = NULL
        /\ (pc[t] = "get_check" /\ con[t] # NULL /\ pc'[t] = "idle")
              => /\ pool' = pool /\ nextId' = nextId
                 /\ con[t] \in held'[t]
    /\ nextId' # nextId
          => \E t \in Threads :
                /\ pc[t] = "get_check" /\ pc'[t] = "get_push"
                /\ con[t] = NULL
                /\ size[t] < maxConnections
                /\ nextId' = nextId + 1

\* C34 as stated: in addition, in a pool started full with initial = max,
\* no acquisition ever opens a driver connection.
C34_FullPoolNeverCreates ==
    [][/\ C34_CreatesOnlyAfterEmptyScan
       /\ (initialConnections = maxConnections) => (nextId' = nextId)]_vars

\* C34: getConnection opens a driver connection only when its scan found
\* no available connection; a scan of a pool with an available connection
\* takes an existing one and, when it passes its ping, the call returns it
\* without growing the pool; in a pool started full with initial = max no
\* acquisition opens a driver connection as long as no candidate has failed
\* its ping and been evicted.
C34_FullPoolCreatesOnlyAfterEviction ==
    [][/\ C34_CreatesOnlyAfterEmptyScan
       /\ (initialConnections = maxConnections /\ freed = {})
             => nextId' = nextId]_vars

\* C34 witness: in a pool started full with initial = max >= 1 a thread
\* holds an existing connection that passed its ping, nothing was created
\* or evicted, and the other thread has just been refused at max.
C34_Witness ==
    \E t \in Threads : \E u \in Threads \ {t} :
        /\ initialConnections = maxConnections
        /\ maxConnections >= 1
        /\ freed = {}
        /\ nextId = initialConnections + 1
        /\ Vector_size(pool) = maxConnections
        /\ held[t] = Range(pool)
        /\ last = [t |-> u, r |-> "max_reached", n |-> 0, pinged |-> FALSE]

\* ---------------------------------------------------------------- C35
\* C35, first part: a TRY statement with a FINALLY block that control has
\* left, in a thread that goes on running, has run that block exactly once
C35_FinallyOnce ==
    \A r \in tleft : (r.f.fin /\ uncaught = "none") => r.f.ran = 1

\* C35, second part: an exception raised in the body that no CATCH or ELSE
\* of the statement matches never leaves the statement by a plain END_TRY;
\* it is re-thrown, after the FINALLY block if there is one, and is then
\* with the handler of an enclosing statement (or uncaught if there is none)
C35_RethrownAfterFinally ==
    \A r \in tleft :
        /\ (r.how = "end" /\ r.f.exception # "none")
              => r.f.exception \in r.f.catches
        /\ r.how = "rethrow"
              => /\ r.f.exception \notin r.f.catches
                 /\ r.f.fin => r.f.ran = 1
                 /\ \/ uncaught = r.f.exception
                    \/ /\ tstmts # <<>>
                       /\ tstmts[Len(tstmts)].exception = r.f.exception
                       /\ tstmts[Len(tstmts)].at \in {"catch", "finally"}

\* C35, third part: after END_TRY on the normal path and on the
\* handled-exception path the Exception_stack is what it was before TRY
C35_StackRestored ==
    \A r \in tleft : r.how = "end" => r.after = r.f.prev /\ Exception_stack = r.after

\* C35: for TRY .. CATCH .. FINALLY .. END_TRY the FINALLY block is run
\* exactly once whether or not the body raised, an exception no clause
\* matches is re-thrown to the enclosing handler after the FINALLY block,
\* and after END_TRY the Exception_stack is what it was before TRY.
C35_TryFinally ==
    /\ C35_FinallyOnce
    /\ C35_RethrownAfterFinally
    /\ C35_StackRestored

\* ---------------------------------------------------------------- C36
\* A decimal string: an optional sign and then digits only, at least one
IsDecimal(s) ==
    LET d0 == IF s # <<>> /\ s[1] \in {"-", "+"} THEN 1 ELSE 0
    IN  /\ Len(s) > d0
        /\ \A i \in (d0 + 1)..Len(s) : isdigit(s[i])

\* The integer a decimal string represents
Represented(s) ==
    LET d0 == IF s[1] \in {"-", "+"} THEN 1 ELSE 0
        mag == Decimal(s, d0 + 1, Len(s))
    IN  IF s[1] = "-" THEN 0 - mag ELSE mag

\* White space and then a decimal string: strtol's syntax, on which the
\* statement is silent
IsPaddedDecimal(s) ==
    \E k \in 1..(Len(s) - 1) :
        /\ \A i \in 1..k : isspace(s[i])
        /\ IsDecimal(SubSeq(s, k + 1, Len(s)))

\* C36: Str_parseInt(s) returns the integer the base-10 string s
\* represents; it raises SQLException for NULL, for the empty string, for
\* input that is not numeric, a numeric prefix followed by something that
\* is no digit included, and for every decimal string whose value is
\* outside the range of int, instead of returning a wrapped value.
C36_ParseIntExact ==
    parsed.done =>
        IF STR_UNDEF(str) THEN parsed.raised
        ELSE IF IsDecimal(str.chars)
        THEN IF Represented(str.chars) \in INT_MIN..INT_MAX
             THEN ~parsed.raised /\ parsed.value = Represented(str.chars)
             ELSE parsed.raised
        ELSE IF IsPaddedDecimal(str.chars) THEN TRUE
        ELSE parsed.raised

\* ---------------------------------------------------------------- C37
\* The date part or the time part of the string is out of range
OutOfRange(s) ==
    \/ \E i \in Parts(s, "date") :
          \/ _a2i(s[i].text, 5, 2) \notin 1..12
          \/ _a2i(s[i].text, 8, 2) \notin 1..31
    \/ \E i \in Parts(s, "time") :
          \/ _a2i(s[i].text, 0, 2) \notin 0..23
          \/ _a2i(s[i].text, 3, 2) \notin 0..59
          \/ _a2i(s[i].text, 6, 2) \notin 0..60

\* C37: every struct tm Time_toDateTime returns has month in 0..11, hour
\* in 0..23, minute in 0..59, seconds in 0..60, and for a string with a
\* date day in 1..31 and the year as the literal year; a string whose date
\* part or time part is out of range raises SQLException and no structure
\* is returned for it.
C37_ReturnedTimeInRange ==
    tout.done =>
        /\ ~tout.raised
              => /\ tout.tm.tm_mon \in 0..11
                 /\ tout.tm.tm_hour \in 0..23
                 /\ tout.tm.tm_min \in 0..59
                 /\ tout.tm.tm_sec \in 0..60
                 /\ Parts(tin, "date") # {}
                       => /\ tout.tm.tm_mday \in 1..31
                          /\ \E i \in Parts(tin, "date") :
                                tout.tm.tm_year = _a2i(tin[i].text, 0, 4)
        /\ OutOfRange(tin) => tout.raised

\* ---------------------------------------------------------------- C38
\* C38: under every interleaving with reapConnections and stop in other
\* threads, when getConnection evicts a candidate that failed its ping the
\* candidate is still in the pool (Vector_indexOf does not return -1, so
\* the assertion of Vector_remove holds) and has not been freed before, so
\* that each connection is freed exactly once.
C38_EvictionSafe ==
    \A t \in Threads :
        /\ pc[t] = "get_evict"
              => /\ Vector_indexOf(pool, con[t]) # -1
                 /\ con[t] \notin freed
        /\ pc[t] # "assert_failed"

\* ---------------------------------------------------------------- C39
\* How a call of getConnection of thread t ends in a step, with the
\* outcomes in fails allowed as failures: each failure has its cause in
\* what the call saw (con and size are from its last scan)
C39_EndsWith(t, fails) ==
    (pc[t] \in {"get_check", "get_push", "get_evict"} /\ pc'[t] = "idle")
        => /\ last'.t = t
           /\ last'.r \in {"ok"} \cup fails
           /\ last'.r = "max_reached"
                 => /\ pc[t] = "get_check" /\ con[t] = NULL
                    /\ size[t] >= maxConnections
           /\ last'.r = "open_failed"
                 => /\ pc[t] = "get_check" /\ con[t] = NULL
                    /\ size[t] < maxConnections
                    /\ nextId' = nextId
           /\ last'.r = "retries_exhausted"
                 => /\ pc[t] = "get_evict"
                    /\ retries[t] + 1 = maxRetries
           /\ (pc[t] = "get_check" /\ con[t] = NULL
                  /\ size[t] < maxConnections)
                 => last'.r = "open_failed"

\* C39 as stated: getConnection fails only when its scan found the pool at
\* max with no available connection or when the driver fails to open a
\* connection, however many idle connections are dead.
C39_FailsOnlyAtMaxOrOpenFailure ==
    [][\A t \in Threads :
          C39_EndsWith(t, {"max_reached", "open_failed"})]_vars

\* C39: getConnection fails only when its scan found the pool at max with
\* no available connection, when the driver fails to open a connection, or
\* when maxRetries candidates in a row have failed their ping; a call
\* whose scan found nothing below max fails only if the open fails.
C39_FailsOnlyAtMaxOpenFailureOrRetries ==
    [][\A t \in Threads : C39_EndsWith(t, GetFailures)]_vars

\* C39 witness: a call has just failed because its tenth candidate failed
\* the ping, with fewer than max connections active.
C39_Witness ==
    /\ last.r = "retries_exhausted"
    /\ _active(pool, available) < maxConnections
    /\ Vector_size(pool) < maxConnections

\* ---------------------------------------------------------------- C40
\* C40: zdb::Connection execute(sql, args...) and executeQuery(sql,
\* args...) called with a number of arguments that differs from the number
\* of placeholders of sql fail with the SQL error, before any parameter is
\* bound and without executing the statement, as
\* PreparedStatement::bindValues does.
C40_ExecuteChecksCount ==
    (last.r \in {"executed", "execute_error"} /\ last.n # paramCount)
        => /\ last.r = "execute_error"
           /\ \A i \in 1..MaxParams : params[i] = Unbound

====
